---- MODULE Spec2Model ----
(***************************************************************************)
(* Generate-Verify-Compare pipeline of backend/llm_system.py.              *)
(*                                                                         *)
(* Texts (model outputs) are sequences of tokens.  A token is a literal    *)
(* piece of text that the regular expressions of parse_score treat as a    *)
(* unit: a word, "_", " ", ":", "[", "]", "-", ".", a newline or a digit.  *)
(***************************************************************************)
EXTENDS Integers, Sequences, FiniteSets, TLC

VARIABLES
    \* module-level clients of llm_system.py; FALSE models None
    generator_llm, verifier_llm, comparer_llm, search_tool,
    profiles,       \* the module-level dictionary DOMAINS
    \* one call of run_hallucination_reduction_system
    state,          \* position of the orchestrator
    query, domain,  \* its arguments
    genState,       \* generator branch: "idle", "running", "done", "raised"
    verState,       \* verifier branch: "idle", "searching", "invoking", "done", "raised"
    outputs,        \* answers of the branches that have returned, by key
    raisedBy,       \* exception of each stage that raised, by stage
    searched,       \* what search_tool.invoke did in this run, if it was called
    context,        \* value of search_and_format(query)["context"]
    verPrompt,      \* prompt given to the verifier model
    comparerInput,  \* input given to the comparer chain
    calls,          \* external calls made in this run, by callee
    comparerOutput, \* final_answer_raw: what the comparer chain returned
    result,         \* what the call gave its caller
    helper,         \* last return of run_verifier_with_context / run_comparer_only
    \* one call of parse_score
    pText,      \* the text argument
    pKey,       \* the key argument
    pPhase,     \* "input" before the call, "parsed" after it
    pResult,    \* value returned by parse_score
    \* the two re.sub lines that clean the answer, applied to a text
    cText,      \* the comparer's raw output
    cPhase,     \* "input", "cleaned" after one pass, "again" after a second
    cAnswer,    \* the text after one pass
    cAgain,     \* the text after a second pass over cAnswer
    \* run_benchmark of benchmark.py
    sample,     \* sample_df: the questions of the sampled rows, in order
    rows,       \* results: the rows recorded so far
    locals,     \* the loop's variables as its last turn left them
    partial,    \* rows of the file benchmark_partial_<timestamp>.csv
    aggregate,  \* the means computed after the loop
    \* the SQLite file of database.py
    foreign_keys,   \* whether the SQLite build enforces FOREIGN KEY clauses
    chats,          \* table chats: title by id
    messages,       \* table messages, in the order of insertion
    chatIds,        \* number of chat ids uuid4 has given out
    msgIds,         \* number of message ids uuid4 has given out
    dbOp,           \* the last call of a function of database.py
    \* app.py
    api_keys,       \* whether the four keys are in the environment
    request,        \* the process_query request in progress, or the last one
    served          \* number of requests received

clientVars == <<generator_llm, verifier_llm, comparer_llm, search_tool>>

moduleVars == <<clientVars, profiles>>

runVars == <<state, query, domain, genState, verState, outputs, raisedBy,
             searched, context, verPrompt, comparerInput, calls, comparerOutput,
             result>>

parseVars == <<pText, pKey, pPhase, pResult>>

cleanVars == <<cText, cPhase, cAnswer, cAgain>>

benchVars == <<sample, rows, locals, partial, aggregate>>

pureVars == <<parseVars, cleanVars, benchVars>>

storeVars == <<foreign_keys, chats, messages, chatIds, msgIds, dbOp>>

appVars == <<storeVars, api_keys, request, served>>

vars == <<moduleVars, runVars, helper, pureVars, appVars>>

----------------------------------------------------------------------------
(* Tokens *)

NL == "\n"

Digits == {"0", "1", "2", "3", "4", "5", "6", "7", "8", "9"}

DigitValue(d) ==
    CASE d = "0" -> 0 [] d = "1" -> 1 [] d = "2" -> 2 [] d = "3" -> 3
      [] d = "4" -> 4 [] d = "5" -> 5 [] d = "6" -> 6 [] d = "7" -> 7
      [] d = "8" -> 8 [] d = "9" -> 9

\* Words in upper case, and their lower-case and title-case spellings.
UpperWords ==
    {"CONFIDENCE", "FACTUAL", "ACCURACY", "HALLUCINATION", "AGREEMENT",
     "FINAL", "TRUST", "SCORE"}

LowerOf(w) ==
    CASE w = "CONFIDENCE" -> "confidence" [] w = "FACTUAL" -> "factual"
      [] w = "ACCURACY" -> "accuracy" [] w = "HALLUCINATION" -> "hallucination"
      [] w = "AGREEMENT" -> "agreement" [] w = "FINAL" -> "final"
      [] w = "TRUST" -> "trust" [] w = "SCORE" -> "score"
      [] OTHER -> w

TitleOf(w) ==
    CASE w = "CONFIDENCE" -> "Confidence" [] w = "FACTUAL" -> "Factual"
      [] w = "ACCURACY" -> "Accuracy" [] w = "HALLUCINATION" -> "Hallucination"
      [] w = "AGREEMENT" -> "Agreement" [] w = "FINAL" -> "Final"
      [] w = "TRUST" -> "Trust" [] w = "SCORE" -> "Score"
      [] OTHER -> w

\* re.IGNORECASE dropped: tokens match only when spelled identically.
FoldCaseExact(t) == t

\* re.IGNORECASE: two tokens match when they are equal after case folding.
FoldCase(t) ==
    IF \E w \in UpperWords : t \in {w, LowerOf(w), TitleOf(w)}
    THEN CHOOSE w \in UpperWords : t \in {w, LowerOf(w), TitleOf(w)}
    ELSE t

IsDigit(t) == t \in Digits

\* \s of the regular expressions
IsSpace(t) == t \in {" ", NL}

----------------------------------------------------------------------------
(* Numbers.  float(s) of a matched group s = whole digits, optionally "."   *)
(* and fraction digits.  A float is kept as n / 10^e with no trailing zero  *)
(* in the fraction, so that float("7") = float("07") = float("7.0").        *)

RECURSIVE DigitsToInt(_)
DigitsToInt(ds) ==
    IF ds = <<>> THEN 0
    ELSE 10 * DigitsToInt(SubSeq(ds, 1, Len(ds) - 1)) + DigitValue(ds[Len(ds)])

RECURSIVE Normalize(_, _)
Normalize(n, e) ==
    IF e > 0 /\ n % 10 = 0 THEN Normalize(n \div 10, e - 1)
    ELSE [n |-> n, e |-> e]

Float(whole, frac) == Normalize(DigitsToInt(whole \o frac), Len(frac))

\* default=0.0 of parse_score
DefaultScore == Float(<<"0">>, <<"0">>)

NoMatch == [ok |-> FALSE]

RECURSIVE DigitRunEnd(_, _)
\* Index of the last token of the longest run of digits that starts at j
\* (j - 1 when there is none): the greedy \d+.
DigitRunEnd(text, j) ==
    IF j <= Len(text) /\ IsDigit(text[j]) THEN DigitRunEnd(text, j + 1)
    ELSE j - 1

\* (\d+(?:\.\d+)?) anchored at j
NumberAt(text, j) ==
    LET w == DigitRunEnd(text, j) IN
    IF w < j THEN NoMatch
    ELSE LET f == IF w + 1 <= Len(text) /\ text[w + 1] = "."
                  THEN DigitRunEnd(text, w + 2) ELSE w + 1
         IN IF f >= w + 2
            THEN [ok |-> TRUE, stop |-> f,
                  value |-> Float(SubSeq(text, j, w), SubSeq(text, w + 2, f))]
            ELSE [ok |-> TRUE, stop |-> w,
                  value |-> Float(SubSeq(text, j, w), <<>>)]

RECURSIVE SkipSpaces(_, _)
\* the greedy \s* anchored at j: index of the first token that is not a space
SkipSpaces(text, j) ==
    IF j <= Len(text) /\ IsSpace(text[j]) THEN SkipSpaces(text, j + 1) ELSE j

\* The optional "[" is not accepted: the pattern \s*(\d+(?:\.\d+)?).
ScoreTailNoBracket(text, j) == NumberAt(text, SkipSpaces(text, j))

\* \s*\[?(\d+(?:\.\d+)?) anchored at j
ScoreTail(text, j) ==
    LET k == SkipSpaces(text, j)
        b == IF k <= Len(text) /\ text[k] = "[" THEN k + 1 ELSE k
    IN NumberAt(text, b)

\* the literal pattern pat matches at i, ignoring case
LiteralAt(text, i, pat) ==
    /\ i + Len(pat) - 1 <= Len(text)
    /\ \A k \in 1..Len(pat) : FoldCase(text[i + k - 1]) = FoldCase(pat[k])

Min(S) == CHOOSE x \in S : \A y \in S : x <= y

\* re.search(f"{label}:\s*\[?(\d+(?:\.\d+)?)", text, re.IGNORECASE)
SearchLabelColon(text, label) ==
    LET starts == {i \in 1..Len(text) :
                     /\ LiteralAt(text, i, label \o <<":">>)
                     /\ ScoreTail(text, i + Len(label) + 1).ok}
    IN IF starts = {} THEN NoMatch
       ELSE ScoreTail(text, Min(starts) + Len(label) + 1)

\* tokens i+1 .. j-1 hold no newline: what ".*?" and "[^\n]*?" can cross
SameLine(text, i, j) == \A k \in (i + 1)..(j - 1) : text[k] # NL

\* re.search(f"{word}[^\n]*?:\s*\[?(\d+(?:\.\d+)?)", text, re.IGNORECASE),
\* and the same with ".*?" in place of "[^\n]*?"
SearchWordThenColon(text, word) ==
    LET colons(i) == {j \in (i + 1)..Len(text) :
                        /\ text[j] = ":"
                        /\ SameLine(text, i, j)
                        /\ ScoreTail(text, j + 1).ok}
        starts == {i \in 1..Len(text) :
                     FoldCase(text[i]) = FoldCase(word) /\ colons(i) # {}}
    IN IF starts = {} THEN NoMatch
       ELSE ScoreTail(text, Min(colons(Min(starts))) + 1)

\* the first number of the text, wherever the word is
SearchAnyNumber(text, word) ==
    LET nums == {j \in 1..Len(text) : IsDigit(text[j])}
    IN IF nums = {} THEN NoMatch ELSE NumberAt(text, Min(nums))

\* re.search(f"{word}.*?(\d+(?:\.\d+)?)", text, re.IGNORECASE)
\* The number may be on a later line than the word.
SearchWordThenNumberAnyLine(text, word) ==
    LET nums(i) == {j \in (i + 1)..Len(text) : IsDigit(text[j])}
        starts == {i \in 1..Len(text) :
                     FoldCase(text[i]) = FoldCase(word) /\ nums(i) # {}}
    IN IF starts = {} THEN NoMatch
       ELSE NumberAt(text, Min(nums(Min(starts))))

SearchWordThenNumber(text, word) ==
    LET nums(i) == {j \in (i + 1)..Len(text) :
                      IsDigit(text[j]) /\ SameLine(text, i, j)}
        starts == {i \in 1..Len(text) :
                     FoldCase(text[i]) = FoldCase(word) /\ nums(i) # {}}
    IN IF starts = {} THEN NoMatch
       ELSE NumberAt(text, Min(nums(Min(starts))))

----------------------------------------------------------------------------
(* parse_score *)

\* key.replace("_", " ")
key_spaced(key) == [k \in 1..Len(key) |-> IF key[k] = "_" THEN " " ELSE key[k]]

\* key.split("_")[0]
short_key(key) == key[1]

\* "SCORE" in key, "TRUST" in key
KeyHas(key, word) == \E k \in 1..Len(key) : key[k] = word

\* The truncated-label strategy is tried before the loose Trust strategy.
parse_score_short_first(text, key) ==
    LET m1 == SearchLabelColon(text, key)
        m2 == SearchLabelColon(text, key_spaced(key))
        m3 == SearchWordThenColon(text, "Trust")
        m4 == SearchWordThenColon(text, short_key(key))
        m5 == SearchWordThenNumber(text, short_key(key))
    IN IF m1.ok THEN m1.value
       ELSE IF m2.ok THEN m2.value
       ELSE IF KeyHas(key, "SCORE") /\ m4.ok THEN m4.value
       ELSE IF KeyHas(key, "SCORE") /\ KeyHas(key, "TRUST") /\ m3.ok THEN m3.value
       ELSE IF m5.ok THEN m5.value
       ELSE DefaultScore

parse_score(text, key) ==
    LET m1 == SearchLabelColon(text, key)
        m2 == SearchLabelColon(text, key_spaced(key))
        m3 == SearchWordThenColon(text, "Trust")
        m4 == SearchWordThenColon(text, short_key(key))
        m5 == SearchWordThenNumber(text, short_key(key))
    IN IF m1.ok THEN m1.value
       ELSE IF m2.ok THEN m2.value
       ELSE IF KeyHas(key, "SCORE") /\ KeyHas(key, "TRUST") /\ m3.ok THEN m3.value
       ELSE IF KeyHas(key, "SCORE") /\ m4.ok THEN m4.value
       ELSE IF m5.ok THEN m5.value
       ELSE DefaultScore

----------------------------------------------------------------------------
(* Domain configuration and prompt templates *)

DomainKeys == {"general", "medical", "legal", "financial", "educational", "technical"}

DOMAINS ==
    [k \in DomainKeys |->
       CASE k = "general" ->
              [name |-> "General Assistant",
               description |-> "General-purpose AI assistant for any topic",
               icon |-> "brain",
               system_prompt |-> "You are a helpful AI assistant."]
         [] k = "medical" ->
              [name |-> "Medical Assistant",
               description |-> "Healthcare and medical information specialist",
               icon |-> "heart",
               system_prompt |-> "You are a medical information assistant."]
         [] k = "legal" ->
              [name |-> "Legal Assistant",
               description |-> "Legal research and general legal information",
               icon |-> "scale",
               system_prompt |-> "You are a legal information assistant."]
         [] k = "financial" ->
              [name |-> "Financial Advisor",
               description |-> "Financial planning and investment guidance",
               icon |-> "dollar-sign",
               system_prompt |-> "You are a financial information assistant."]
         [] k = "educational" ->
              [name |-> "Educational Tutor",
               description |-> "Learning assistant for academic subjects",
               icon |-> "graduation-cap",
               system_prompt |-> "You are an educational tutor and learning assistant."]
         [] k = "technical" ->
              [name |-> "Technical Assistant",
               description |-> "Programming and technical support",
               icon |-> "code",
               system_prompt |-> "You are a technical assistant specializing in programming."]]

\* dict.get(key, default)
Get(d, key, default) == IF key \in DOMAIN d THEN d[key] ELSE default

\* dict.setdefault stores the default under a key it does not find
AfterSetDefault(d, key, default) ==
    IF key \in DOMAIN d THEN d ELSE d @@ (key :> default)

\* dict.get leaves the dictionary as it found it
AfterGet(d, key, default) == d

\* DOMAINS.get(domain, DOMAINS["general"]), DOMAINS being the dictionary as
\* it is when the call is made
get_domain_config(d) == Get(profiles, d, profiles["general"])

\* str.lower() of the descriptions
str_lower(t) ==
    CASE t = "General-purpose AI assistant for any topic" ->
             "general-purpose ai assistant for any topic"
      [] t = "Healthcare and medical information specialist" ->
             "healthcare and medical information specialist"
      [] t = "Legal research and general legal information" ->
             "legal research and general legal information"
      [] t = "Financial planning and investment guidance" ->
             "financial planning and investment guidance"
      [] t = "Learning assistant for academic subjects" ->
             "learning assistant for academic subjects"
      [] t = "Programming and technical support" ->
             "programming and technical support"

CONFIDENCE_SCORE == <<"CONFIDENCE", "_", "SCORE">>
FACTUAL_ACCURACY_SCORE == <<"FACTUAL", "_", "ACCURACY", "_", "SCORE">>
HALLUCINATION_SCORE == <<"HALLUCINATION", "_", "SCORE">>
AGREEMENT_SCORE == <<"AGREEMENT", "_", "SCORE">>
FINAL_TRUST_SCORE == <<"FINAL", "_", "TRUST", "_", "SCORE">>

\* A template: its preamble, the variables it takes and the score labels its
\* text asks the model to end with.
create_generator_prompt_template(system_prompt) ==
    [preamble |-> <<system_prompt>>,
     variables |-> {"query"},
     requests |-> {CONFIDENCE_SCORE}]

create_search_qa_prompt_template(system_prompt) ==
    [preamble |-> system_prompt,
     variables |-> {"context", "query"},
     requests |-> {FACTUAL_ACCURACY_SCORE}]

create_comparer_prompt_template(system_prompt) ==
    [preamble |-> system_prompt,
     variables |-> {"query", "generator_answer", "verifier_answer"},
     requests |-> {AGREEMENT_SCORE, FINAL_TRUST_SCORE}]

\* the value None of a chain that was not built
NoChain == [built |-> FALSE]

Chain(template) == [built |-> TRUE, template |-> template]

\* All three templates are given the profile's system_prompt.
create_domain_chains_system_prompt(d) ==
    LET domain_config == get_domain_config(d)
        gen_template == create_generator_prompt_template(domain_config.system_prompt)
        ver_template == create_search_qa_prompt_template(<<domain_config.system_prompt>>)
        comp_template == create_comparer_prompt_template(<<domain_config.system_prompt>>)
    IN [generator_chain |-> IF generator_llm THEN Chain(gen_template) ELSE NoChain,
        verifier_chain |-> IF verifier_llm THEN Chain(ver_template) ELSE NoChain,
        comparer_chain |-> IF comparer_llm THEN Chain(comp_template) ELSE NoChain,
        domain_config |-> domain_config]

create_domain_chains(d) ==
    LET domain_config == get_domain_config(d)
        gen_template == create_generator_prompt_template(domain_config.system_prompt)
        ver_template == create_search_qa_prompt_template(
            <<"You are a factual assistant specialized in ",
              str_lower(domain_config.description),
              ". Answer the following user query based ONLY on the provided search results context. Do not use any of your internal knowledge.">>)
        comp_template == create_comparer_prompt_template(
            <<"You are a meticulous fact-checking and synthesis agent specialized in ",
              str_lower(domain_config.description),
              ". Your goal is to produce the most accurate and reliable answer to the user's query by comparing two different AI-generated answers.">>)
    IN [generator_chain |-> IF generator_llm THEN Chain(gen_template) ELSE NoChain,
        verifier_chain |-> IF verifier_llm THEN Chain(ver_template) ELSE NoChain,
        comparer_chain |-> IF comparer_llm THEN Chain(comp_template) ELSE NoChain,
        domain_config |-> domain_config]

\* template.format(**values): the rendered prompt
\* The template is filled in without the search context.
RenderWithoutContext(template, values) ==
    [preamble |-> template.preamble,
     values |-> [k \in DOMAIN values \ {"context"} |-> values[k]]]

Render(template, values) == [preamble |-> template.preamble, values |-> values]

----------------------------------------------------------------------------
(* Search *)

\* results beyond which the model does not look (the tool caps them itself)
MaxResults == 2

IndexStr(i) == CASE i = 1 -> "1" [] i = 2 -> "2" [] i = 3 -> "3" [] i = 4 -> "4"
                 [] i = 5 -> "5" [] OTHER -> "6"

RECURSIVE JoinText(_, _)
\* sep.join(parts), parts being sequences of pieces of text
JoinText(parts, sep) ==
    IF parts = <<>> THEN <<>>
    ELSE IF Len(parts) = 1 THEN parts[1]
    ELSE parts[1] \o <<sep>> \o JoinText(Tail(parts), sep)

\* A search tool's answer that is not a list of dicts makes result.get fail.
format_search_results(results) ==
    IF results.kind = "text" THEN
        [raised |-> TRUE, error |-> "'str' object has no attribute 'get'"]
    ELSE IF results.items = <<>> THEN
        [raised |-> FALSE, text |-> <<"No search results found.">>]
    ELSE
        [raised |-> FALSE,
         text |-> JoinText([i \in 1..Len(results.items) |->
                          <<"Result ", IndexStr(i), ":\n",
                            "Title: ", Get(results.items[i], "title", "No title"), "\n",
                            "URL: ", Get(results.items[i], "url", "No URL"), "\n",
                            "Content: ",
                            Get(results.items[i], "content", "No content available"),
                            "\n">>],
                           "\n")]

\* The try block without its except clause: a failure of the tool or of the
\* formatting escapes.
search_and_format_uncaught(q, outcome) ==
    IF ~search_tool THEN
        [raised |-> FALSE, query |-> q,
         context |-> <<"Search functionality is not available. Please verify your Tavily API key.">>]
    ELSE IF outcome.kind = "raise" THEN [raised |-> TRUE, error |-> outcome.error]
    ELSE LET f == format_search_results(outcome) IN
         IF f.raised THEN [raised |-> TRUE, error |-> f.error]
         ELSE [raised |-> FALSE, query |-> q, context |-> f.text]

\* outcome: what search_tool.invoke(query) does when it is called
search_and_format(q, outcome) ==
    IF ~search_tool THEN
        [raised |-> FALSE, query |-> q,
         context |-> <<"Search functionality is not available. Please verify your Tavily API key.">>]
    ELSE IF outcome.kind = "raise" THEN
        [raised |-> FALSE, query |-> q,
         context |-> <<"Error performing search: ", outcome.error, ". No context available.">>]
    ELSE LET f == format_search_results(outcome) IN
         IF f.raised THEN
             [raised |-> FALSE, query |-> q,
              context |-> <<"Error performing search: ", f.error, ". No context available.">>]
         ELSE [raised |-> FALSE, query |-> q, context |-> f.text]

----------------------------------------------------------------------------
(* Answer clean-up *)

RECURSIVE LStrip(_)
LStrip(text) ==
    IF text # <<>> /\ IsSpace(text[1]) THEN LStrip(Tail(text)) ELSE text

RECURSIVE RStrip(_)
RStrip(text) ==
    IF text # <<>> /\ IsSpace(text[Len(text)])
    THEN RStrip(SubSeq(text, 1, Len(text) - 1)) ELSE text

\* str.strip()
Strip(text) == RStrip(LStrip(text))

\* The text is stripped before the cut instead of after it.
CutFromStripFirst(text, label) ==
    LET stripped == Strip(text)
        starts == {i \in 1..Len(stripped) : LiteralAt(stripped, i, label \o <<":">>)}
    IN IF starts = {} THEN stripped ELSE SubSeq(stripped, 1, Min(starts) - 1)

\* re.sub(f"{label}:.*", "", text, flags=re.DOTALL | re.IGNORECASE).strip()
CutFrom(text, label) ==
    LET starts == {i \in 1..Len(text) : LiteralAt(text, i, label \o <<":">>)}
    IN Strip(IF starts = {} THEN text ELSE SubSeq(text, 1, Min(starts) - 1))

\* Only the first of the two substitutions is made.
clean_answer_agreement_only(final_answer_raw) == CutFrom(final_answer_raw, AGREEMENT_SCORE)

\* lines 488 and 489
clean_answer(final_answer_raw) ==
    CutFrom(CutFrom(final_answer_raw, AGREEMENT_SCORE), FINAL_TRUST_SCORE)

----------------------------------------------------------------------------
(* Inputs and outcomes of the external calls *)

Queries == {"What is the capital of France?", "Which language do all people in Europe speak?"}

\* keys a caller passes; "astrology" is not a key of DOMAINS
DomainInputs == {"general", "medical", "astrology"}

\* texts of the exceptions the external calls raise
Errors == {"Connection error.", "Request timed out."}

GeneratorOutputs ==
    {<<"x", NL>> \o CONFIDENCE_SCORE \o <<":", " ", "9", "0">>,
     <<"x", NL>> \o CONFIDENCE_SCORE \o <<":", " ", "2", "5", "0">>,
     <<"x">>}

VerifierOutputs ==
    {<<"x", NL>> \o FACTUAL_ACCURACY_SCORE \o <<":", " ", "9", "5", NL>>
        \o HALLUCINATION_SCORE \o <<":", " ", "2">>,
     <<"x">>}

ComparerOutputs ==
    {<<"Paris", " ", "x", NL>> \o AGREEMENT_SCORE \o <<":", " ", "8", "8", NL>>
        \o FINAL_TRUST_SCORE \o <<":", " ", "9", "2">>,
     <<"x", NL>> \o FINAL_TRUST_SCORE \o <<":", " ", "[", "7", "]">>,
     <<"x">>}

SearchRecords ==
    {[title |-> "Paris", url |-> "https://example.org/paris", content |-> "Paris is the capital."],
     [url |-> "https://example.org/fr"]}

RECURSIVE SeqsUpTo(_, _)
\* the sequences over S of length at most n
SeqsUpTo(S, n) ==
    IF n = 0 THEN {<<>>}
    ELSE LET shorter == SeqsUpTo(S, n - 1)
         IN shorter \cup {Append(t, x) : t \in shorter, x \in S}

\* what search_tool.invoke(query) can do: return a list of records, return a
\* text instead of a list, or raise
SearchOutcomes ==
    {[kind |-> "list", items |-> rs] : rs \in SeqsUpTo(SearchRecords, MaxResults)}
    \cup {[kind |-> "text", items |-> <<>>]}
    \cup {[kind |-> "raise", error |-> e] : e \in Errors}

----------------------------------------------------------------------------
(* run_hallucination_reduction_system *)

NoValue == [kind |-> "none"]

EmptyMap == [k \in {} |-> <<>>]

ZeroCalls == [search |-> 0, generator |-> 0, verifier |-> 0, comparer |-> 0]

Bump(c, who) == [c EXCEPT ![who] = @ + 1]

ErrorString(pieces) == [kind |-> "ErrorString", text |-> pieces]

\* No except clause: the exception leaves the function.
Reraise(e) == [kind |-> "Raised", error |-> e]

\* except Exception as e: return f"System error: {e}"
HandleException(e) == ErrorString(<<"System error: ", e>>)

\* The fan-in returns as soon as one branch has finished.
JoinReadyFirst(gs, vs) == gs \in {"done", "raised"} \/ vs \in {"done", "raised"}

\* The fan-in waits until both branches have returned an answer.
JoinReadyBothDone(gs, vs) == gs = "done" /\ vs = "done"

\* parallel_chain.invoke returns (or raises) once both branches have finished
JoinReady(gs, vs) == gs \in {"done", "raised"} /\ vs \in {"done", "raised"}

\* The exception of the verifier branch is re-raised before the generator's.
LastRaised(r) ==
    IF "verifier_answer" \in DOMAIN r THEN r["verifier_answer"] ELSE r["generator_answer"]

\* the exception parallel_chain.invoke re-raises: results are collected in the
\* order of the keys, generator_answer before verifier_answer
FirstRaised(r) ==
    IF "generator_answer" \in DOMAIN r THEN r["generator_answer"] ELSE r["verifier_answer"]

\* Agreement and Final Trust are parsed after the answer was cleaned.
BuildResultFromClean(intermediate_results, final_answer_raw) ==
    [kind |-> "PipelineResult",
     answer |-> clean_answer(final_answer_raw),
     scores |->
        ("Confidence" :> parse_score(intermediate_results["generator_answer"], CONFIDENCE_SCORE))
        @@ ("Factual Accuracy" :>
              parse_score(intermediate_results["verifier_answer"], FACTUAL_ACCURACY_SCORE))
        @@ ("Hallucination Score" :>
              parse_score(intermediate_results["verifier_answer"], HALLUCINATION_SCORE))
        @@ ("Agreement" :> parse_score(clean_answer(final_answer_raw), AGREEMENT_SCORE))
        @@ ("Final Trust" :> parse_score(clean_answer(final_answer_raw), FINAL_TRUST_SCORE)),
     debug |-> [generator_raw |-> intermediate_results["generator_answer"],
                verifier_raw |-> intermediate_results["verifier_answer"]]]

\* steps 3 and 4: parse the scores, clean the answer, structure the return
BuildResult(intermediate_results, final_answer_raw) ==
    [kind |-> "PipelineResult",
     answer |-> clean_answer(final_answer_raw),
     scores |->
        ("Confidence" :> parse_score(intermediate_results["generator_answer"], CONFIDENCE_SCORE))
        @@ ("Factual Accuracy" :>
              parse_score(intermediate_results["verifier_answer"], FACTUAL_ACCURACY_SCORE))
        @@ ("Hallucination Score" :>
              parse_score(intermediate_results["verifier_answer"], HALLUCINATION_SCORE))
        @@ ("Agreement" :> parse_score(final_answer_raw, AGREEMENT_SCORE))
        @@ ("Final Trust" :> parse_score(final_answer_raw, FINAL_TRUST_SCORE)),
     debug |-> [generator_raw |-> intermediate_results["generator_answer"],
                verifier_raw |-> intermediate_results["verifier_answer"]]]

\* Only the generator and the comparer chain are looked at.
ChainsMissingButVerifier(domain_chains) ==
    \/ ~domain_chains.generator_chain.built
    \/ ~domain_chains.comparer_chain.built

\* The call gives up only when all three chains are missing.
ChainsMissingAll(domain_chains) ==
    /\ ~domain_chains.generator_chain.built
    /\ ~domain_chains.verifier_chain.built
    /\ ~domain_chains.comparer_chain.built

\* not generator_chain or not verifier_chain or not comparer_chain
ChainsMissing(domain_chains) ==
    \/ ~domain_chains.generator_chain.built
    \/ ~domain_chains.verifier_chain.built
    \/ ~domain_chains.comparer_chain.built

RunInit ==
    /\ state = "Idle"
    /\ query = ""
    /\ domain = ""
    /\ genState = "idle"
    /\ verState = "idle"
    /\ outputs = EmptyMap
    /\ raisedBy = EmptyMap
    /\ searched = NoValue
    /\ context = <<>>
    /\ verPrompt = NoValue
    /\ comparerInput = NoValue
    /\ calls = ZeroCalls
    /\ comparerOutput = <<>>
    /\ result = NoValue

ParseIdle ==
    /\ pText = <<>>
    /\ pKey = <<>>
    /\ pPhase = "off"
    /\ pResult = DefaultScore

CleanIdle ==
    /\ cText = <<>>
    /\ cPhase = "off"
    /\ cAnswer = <<>>
    /\ cAgain = <<>>

\* run_benchmark about to enter its loop over the sampled questions
BenchStart(sample_df) ==
    /\ sample = sample_df
    /\ rows = <<>>
    /\ locals = NoValue
    /\ partial = NoValue
    /\ aggregate = NoValue

BenchIdle == BenchStart(<<>>)

\* no database file, no request
AppIdle ==
    /\ foreign_keys = FALSE
    /\ chats = EmptyMap
    /\ messages = <<>>
    /\ chatIds = 0
    /\ msgIds = 0
    /\ dbOp = NoValue
    /\ api_keys = TRUE
    /\ request = NoValue
    /\ served = 0

\* the module as it is once imported, all clients built
ModuleLoaded ==
    /\ generator_llm = TRUE
    /\ verifier_llm = TRUE
    /\ comparer_llm = TRUE
    /\ search_tool = TRUE
    /\ profiles = DOMAINS

\* The call: build the chains, give up when one is missing, else start both
\* branches.
Invoke(q, d) ==
    /\ state = "Idle"
    /\ query' = q
    /\ domain' = d
    /\ LET domain_chains == create_domain_chains(d) IN
       IF ChainsMissing(domain_chains)
       THEN /\ result' = ErrorString(<<"System not properly initialized. Please check API keys.">>)
            /\ state' = "Failed"
            /\ UNCHANGED <<genState, verState>>
       ELSE /\ state' = "GeneratingAndVerifying"
            /\ genState' = "running"
            /\ verState' = "searching"
            /\ UNCHANGED result
    /\ profiles' = AfterGet(profiles, d, profiles["general"])
    /\ UNCHANGED <<outputs, raisedBy, searched, context, verPrompt, comparerInput, calls,
                   comparerOutput>>
    /\ UNCHANGED <<clientVars, helper, pureVars, appVars>>

\* generator branch: prompt | generator_llm | StrOutputParser
GeneratorCall ==
    /\ genState = "running"
    /\ calls' = Bump(calls, "generator")
    /\ \/ \E out \in GeneratorOutputs :
             /\ outputs' = outputs @@ ("generator_answer" :> out)
             /\ genState' = "done"
             /\ UNCHANGED raisedBy
       \/ \E e \in Errors :
             /\ raisedBy' = raisedBy @@ ("generator_answer" :> e)
             /\ genState' = "raised"
             /\ UNCHANGED outputs
    /\ UNCHANGED <<state, query, domain, verState, searched, context, verPrompt,
                   comparerInput, comparerOutput, result>>
    /\ UNCHANGED <<moduleVars, helper, pureVars, appVars>>

\* verifier branch, first part: search_runnable | ver_template
SearchAndFormat ==
    /\ verState = "searching"
    /\ \E outcome \in SearchOutcomes :
         LET r == search_and_format(query, outcome) IN
         /\ calls' = IF search_tool THEN Bump(calls, "search") ELSE calls
         /\ searched' = IF search_tool THEN outcome ELSE NoValue
         /\ IF r.raised
            THEN /\ raisedBy' = raisedBy @@ ("verifier_answer" :> r.error)
                 /\ verState' = "raised"
                 /\ UNCHANGED <<context, verPrompt>>
            ELSE /\ context' = r.context
                 /\ verPrompt' = Render(create_domain_chains(domain).verifier_chain.template,
                                        [query |-> r.query, context |-> r.context])
                 /\ verState' = "invoking"
                 /\ UNCHANGED raisedBy
    /\ UNCHANGED <<state, query, domain, genState, outputs, comparerInput,
                   comparerOutput, result>>
    /\ UNCHANGED <<moduleVars, helper, pureVars, appVars>>

\* verifier branch, second part: verifier_llm | StrOutputParser
VerifierCall ==
    /\ verState = "invoking"
    /\ calls' = Bump(calls, "verifier")
    /\ \/ \E out \in VerifierOutputs :
             /\ outputs' = outputs @@ ("verifier_answer" :> out)
             /\ verState' = "done"
             /\ UNCHANGED raisedBy
       \/ \E e \in Errors :
             /\ raisedBy' = raisedBy @@ ("verifier_answer" :> e)
             /\ verState' = "raised"
             /\ UNCHANGED outputs
    /\ UNCHANGED <<state, query, domain, genState, searched, context, verPrompt,
                   comparerInput, comparerOutput, result>>
    /\ UNCHANGED <<moduleVars, helper, pureVars, appVars>>

\* parallel_chain.invoke(query) returns intermediate_results and the comparer
\* chain is invoked with them, or it raises and the except clause returns
ParallelJoin ==
    /\ state = "GeneratingAndVerifying"
    /\ JoinReady(genState, verState)
    /\ IF raisedBy # EmptyMap
       THEN /\ result' = HandleException(FirstRaised(raisedBy))
            /\ state' = IF result'.kind = "Raised" THEN "Raised" ELSE "Failed"
            /\ UNCHANGED <<comparerInput, calls>>
       ELSE /\ comparerInput' = ("query" :> query) @@ outputs
            /\ calls' = Bump(calls, "comparer")
            /\ state' = "Synthesizing"
            /\ UNCHANGED result
    /\ UNCHANGED <<query, domain, genState, verState, outputs, raisedBy, searched,
                   context, verPrompt, comparerOutput>>
    /\ UNCHANGED <<moduleVars, helper, pureVars, appVars>>

\* the comparer chain returns final_answer_raw, or raises
ComparerReturn ==
    /\ state = "Synthesizing"
    /\ \/ \E e \in Errors :
             /\ result' = HandleException(e)
             /\ state' = IF result'.kind = "Raised" THEN "Raised" ELSE "Failed"
             /\ raisedBy' = raisedBy @@ ("comparer" :> e)
             /\ UNCHANGED comparerOutput
       \/ \E out \in ComparerOutputs :
             /\ state' = "Done"
             /\ comparerOutput' = out
             /\ result' = BuildResult(comparerInput, out)
             /\ UNCHANGED raisedBy
    /\ UNCHANGED <<query, domain, genState, verState, outputs, searched, context,
                   verPrompt, comparerInput, calls>>
    /\ UNCHANGED <<moduleVars, helper, pureVars, appVars>>

\* the caller has the value; the next call starts afresh
Return ==
    /\ state \in {"Done", "Failed", "Raised"}
    /\ state' = "Idle"
    /\ query' = ""
    /\ domain' = ""
    /\ genState' = "idle"
    /\ verState' = "idle"
    /\ outputs' = EmptyMap
    /\ raisedBy' = EmptyMap
    /\ searched' = NoValue
    /\ context' = <<>>
    /\ verPrompt' = NoValue
    /\ comparerInput' = NoValue
    /\ calls' = ZeroCalls
    /\ comparerOutput' = <<>>
    /\ result' = NoValue
    /\ UNCHANGED <<moduleVars, helper, pureVars, appVars>>

----------------------------------------------------------------------------
(* The stand-alone stages: run_verifier_with_context and run_comparer_only *)

ContextInputs == {<<"No search results found.">>, <<"Paris is the capital.">>}

run_verifier_with_context_unconfigured ==
    [fn |-> "run_verifier_with_context", called |-> FALSE,
     ret |-> <<"Verifier model not initialized. Please check API keys.">>]

RunVerifierWithContext(q, ctx, d) ==
    /\ state = "Idle"
    /\ IF ~verifier_llm
       THEN helper' = run_verifier_with_context_unconfigured
       ELSE \/ \E out \in VerifierOutputs :
                 helper' = [fn |-> "run_verifier_with_context", called |-> TRUE, ret |-> out]
            \/ \E e \in Errors :
                 helper' = [fn |-> "run_verifier_with_context", called |-> TRUE,
                            ret |-> <<"Verifier error: ", e>>]
    /\ UNCHANGED <<moduleVars, runVars, pureVars, appVars>>

RunComparerOnly(q, generator_answer, verifier_answer, d) ==
    /\ state = "Idle"
    /\ IF ~comparer_llm
       THEN helper' = [fn |-> "run_comparer_only", called |-> FALSE,
                       ret |-> <<"Comparer model not initialized. Please check API keys.">>]
       ELSE \/ \E out \in ComparerOutputs :
                 helper' = [fn |-> "run_comparer_only", called |-> TRUE, ret |-> out]
            \/ \E e \in Errors :
                 helper' = [fn |-> "run_comparer_only", called |-> TRUE,
                            ret |-> <<"Comparer error: ", e>>]
    /\ UNCHANGED <<moduleVars, runVars, pureVars, appVars>>

----------------------------------------------------------------------------
(* Specification of the pipeline *)

Init ==
    /\ generator_llm \in BOOLEAN
    /\ verifier_llm \in BOOLEAN
    /\ comparer_llm \in BOOLEAN
    /\ search_tool \in BOOLEAN
    /\ profiles = DOMAINS
    /\ RunInit
    /\ helper = NoValue
    /\ ParseIdle
    /\ CleanIdle
    /\ BenchIdle
    /\ AppIdle

Next ==
    \/ \E q \in Queries, d \in DomainInputs : Invoke(q, d)
    \/ GeneratorCall
    \/ SearchAndFormat
    \/ VerifierCall
    \/ ParallelJoin
    \/ ComparerReturn
    \/ Return
    \/ \E q \in Queries, ctx \in ContextInputs, d \in DomainInputs :
          RunVerifierWithContext(q, ctx, d)
    \/ \E q \in Queries, ga \in GeneratorOutputs, va \in VerifierOutputs, d \in DomainInputs :
          RunComparerOnly(q, ga, va, d)

Spec == Init /\ [][Next]_vars

\* where the run and its two branches are
position == <<state, genState, verState>>

\* Every external call returns or raises in the end, and the executor of
\* RunnableParallel and the interpreter go on running the code between the
\* calls.
\* Each of these steps moves the run or one of its branches on.
Fairness ==
    /\ WF_position(GeneratorCall)
    /\ WF_position(SearchAndFormat)
    /\ WF_position(VerifierCall)
    /\ WF_position(ParallelJoin)
    /\ WF_position(ComparerReturn)
    /\ WF_position(Return)

FairSpec == Init /\ [][Next]_vars /\ Fairness

----------------------------------------------------------------------------
(* Specification of parse_score alone, over bounded texts *)

\* number of pieces a text is put together from
MaxChunks == 3

Keys == {CONFIDENCE_SCORE, FACTUAL_ACCURACY_SCORE, HALLUCINATION_SCORE,
         AGREEMENT_SCORE, FINAL_TRUST_SCORE}

LowerSeq(ts) == [k \in 1..Len(ts) |-> LowerOf(ts[k])]

TitleSeq(ts) == [k \in 1..Len(ts) |-> TitleOf(ts[k])]

\* The pieces of text a model's output is put together from, for a label:
\* score lines in the requested and in looser forms, the template's own
\* line echoed back, and loose tokens.
Chunks(key) ==
    {key \o <<":", " ", "[", "9", "0", "]">>,
     TitleSeq(key) \o <<":", " ", "7">>,
     LowerSeq(key) \o <<":", "8", ".", "5">>,
     key \o <<":", " ", "[", "0", "-", "1", "0", "0", "]">>,
     key_spaced(key) \o <<":", " ", "6">>,
     <<"Trust", ":", " ", "4">>,
     <<TitleOf(short_key(key))>>,
     <<":">>, <<"3">>, <<NL>>, <<"x">>, <<" ">>, <<".">>}

RECURSIVE TextsOf(_, _)
\* the texts made of at most n pieces
TextsOf(pieces, n) ==
    IF n = 0 THEN {<<>>}
    ELSE LET shorter == TextsOf(pieces, n - 1)
         IN shorter \cup {t \o c : t \in shorter, c \in pieces}

InitParse ==
    /\ ModuleLoaded
    /\ RunInit
    /\ helper = NoValue
    /\ pKey \in Keys
    /\ pText \in TextsOf(Chunks(pKey), MaxChunks)
    /\ pPhase = "input"
    /\ pResult = DefaultScore
    /\ CleanIdle
    /\ BenchIdle
    /\ AppIdle

ParseScore ==
    /\ pPhase = "input"
    /\ pResult' = parse_score(pText, pKey)
    /\ pPhase' = "parsed"
    /\ UNCHANGED <<pText, pKey, moduleVars, runVars, helper, cleanVars, benchVars, appVars>>

NextParse == ParseScore

SpecParse == InitParse /\ [][NextParse]_vars

----------------------------------------------------------------------------
(* Specification of parse_score over texts in which several of its patterns
   match at once *)

\* number of pieces such a text is put together from
MaxPieces == 3

\* One piece for each pattern of parse_score, each with a number of its own,
\* and a line break.
OrderChunks(key) ==
    {key \o <<":", " ", "9">>,
     key_spaced(key) \o <<":", " ", "8">>,
     <<"Trust", ":", " ", "4">>,
     <<TitleOf(short_key(key)), " ", "x", ":", " ", "6">>,
     <<LowerOf(short_key(key)), " ", "5">>,
     <<NL>>, <<"x">>}

InitOrder ==
    /\ ModuleLoaded
    /\ RunInit
    /\ helper = NoValue
    /\ pKey \in Keys
    /\ pText \in TextsOf(OrderChunks(pKey), MaxPieces)
    /\ pPhase = "input"
    /\ pResult = DefaultScore
    /\ CleanIdle
    /\ BenchIdle
    /\ AppIdle

SpecOrder == InitOrder /\ [][NextParse]_vars

MaxFragments == 3

\* Texts for the fallback pattern: the leading token of the label in lower
\* case, digits, a line break, and a colon that is not followed by a number.
InitFallback ==
    /\ ModuleLoaded
    /\ RunInit
    /\ helper = NoValue
    /\ pKey \in Keys
    /\ pText \in TextsOf({<<LowerOf(short_key(pKey))>>, <<NL>>, <<"7">>, <<"3">>,
                           <<":", " ", "x", " ">>, <<" ">>}, MaxFragments)
    /\ pPhase = "input"
    /\ pResult = DefaultScore
    /\ CleanIdle
    /\ BenchIdle
    /\ AppIdle

SpecFallback == InitFallback /\ [][NextParse]_vars

----------------------------------------------------------------------------
(* Specification of the answer clean-up alone, over bounded texts *)

\* number of pieces a comparer output is put together from
MaxParts == 4

\* Pieces of a comparer output: the two score lines as requested, a score
\* line in lower case, a label without its colon, and loose tokens.
CleanChunks ==
    {AGREEMENT_SCORE \o <<":", " ", "8", "8">>,
     FINAL_TRUST_SCORE \o <<":", " ", "9", "2">>,
     LowerSeq(AGREEMENT_SCORE) \o <<":", "5">>,
     FINAL_TRUST_SCORE,
     <<":">>, <<"x">>, <<" ">>, <<NL>>}

InitClean ==
    /\ ModuleLoaded
    /\ RunInit
    /\ helper = NoValue
    /\ ParseIdle
    /\ cText \in TextsOf(CleanChunks, MaxParts)
    /\ cPhase = "input"
    /\ cAnswer = <<>>
    /\ cAgain = <<>>
    /\ BenchIdle
    /\ AppIdle

\* lines 488 and 489 applied to the comparer's raw output
CleanAnswer ==
    /\ cPhase = "input"
    /\ cAnswer' = clean_answer(cText)
    /\ cPhase' = "cleaned"
    /\ UNCHANGED <<cText, cAgain, moduleVars, runVars, helper, parseVars, benchVars, appVars>>

\* the same two lines applied to a cleaned answer
CleanAgain ==
    /\ cPhase = "cleaned"
    /\ cAgain' = clean_answer(cAnswer)
    /\ cPhase' = "again"
    /\ UNCHANGED <<cText, cAnswer, moduleVars, runVars, helper, parseVars, benchVars, appVars>>

NextClean == CleanAnswer \/ CleanAgain

SpecClean == InitClean /\ [][NextClean]_vars

\* Comparer outputs with the score block in the forms parse_score reads: the
\* label with underscores, the label with spaces, and a loose "Trust".
InitScoreBlock ==
    /\ ModuleLoaded
    /\ RunInit
    /\ helper = NoValue
    /\ ParseIdle
    /\ cText \in TextsOf({AGREEMENT_SCORE \o <<":", " ", "8", "8">>,
                           key_spaced(AGREEMENT_SCORE) \o <<":", " ", "7", "7">>,
                           key_spaced(FINAL_TRUST_SCORE) \o <<":", " ", "9", "2">>,
                           <<"Trust", ":", " ", "4">>,
                           <<"x">>, <<NL>>}, MaxParts)
    /\ cPhase = "input"
    /\ cAnswer = <<>>
    /\ cAgain = <<>>
    /\ BenchIdle
    /\ AppIdle

SpecScoreBlock == InitScoreBlock /\ [][NextClean]_vars

----------------------------------------------------------------------------
(* The benchmark: run_benchmark of benchmark.py.

   Numbers are decimals n / 10^e as above and the arithmetic on them is
   exact.  The floats of the code differ from it by less than the 0.005 that
   round(x, 2) takes away, for every input drawn below. *)

Dec(v) == [n |-> v, e |-> 0]

Max(a, b) == IF a >= b THEN a ELSE b

\* a * b
DecMul(a, b) == Normalize(a.n * b.n, a.e + b.e)

\* a + b
DecAdd(a, b) ==
    LET e == Max(a.e, b.e)
    IN Normalize(a.n * 10^(e - a.e) + b.n * 10^(e - b.e), e)

\* round(a, places), the half way case going to the even digit
DecRound(a, places) ==
    IF a.e <= places THEN a
    ELSE LET d == 10^(a.e - places)
             q == a.n \div d
             r == a.n % d
         IN Normalize(IF 2 * r > d \/ (2 * r = d /\ q % 2 = 1) THEN q + 1 ELSE q, places)

\* judge_score / 10.0 * 100
JudgePercent(judge_score) == DecMul(Normalize(judge_score, 1), Dec(100))

\* The hallucination flag is not looked at.
factual_accuracy_no_penalty(llm_factual, judge_score, hallucination) ==
    IF llm_factual.n = 0 /\ judge_score > 0
    THEN JudgePercent(judge_score)
    ELSE llm_factual

\* lines 93-98
factual_accuracy(llm_factual, judge_score, hallucination) ==
    IF llm_factual.n = 0 /\ judge_score > 0
    THEN IF hallucination
         THEN DecMul(JudgePercent(judge_score), [n |-> 5, e |-> 1])
         ELSE JudgePercent(judge_score)
    ELSE llm_factual

\* 0.40 * (judge_score / 10.0 * 100) + 0.30 * factual_accuracy
\*    + 0.20 * (soft_rec * 100) + 0.10 * (inclusion * 100)
Composite(judge_score, fa, soft_rec, inclusion) ==
    DecAdd(DecAdd(DecAdd(DecMul([n |-> 40, e |-> 2], JudgePercent(judge_score)),
                         DecMul([n |-> 30, e |-> 2], fa)),
                  DecMul([n |-> 20, e |-> 2], DecMul(soft_rec, Dec(100)))),
           DecMul([n |-> 10, e |-> 2], DecMul(inclusion, Dec(100))))

\* The composite is computed whenever the model reported no Final Trust,
\* whatever the judge score.
final_trust_unguarded(llm_trust, judge_score, hallucination, fa, soft_rec, inclusion) ==
    IF llm_trust.n = 0
    THEN IF hallucination
         THEN DecMul(Composite(judge_score, fa, soft_rec, inclusion), [n |-> 5, e |-> 1])
         ELSE Composite(judge_score, fa, soft_rec, inclusion)
    ELSE llm_trust

\* lines 101-111
final_trust(llm_trust, judge_score, hallucination, fa, soft_rec, inclusion) ==
    IF llm_trust.n = 0 /\ judge_score > 0
    THEN IF hallucination
         THEN DecMul(Composite(judge_score, fa, soft_rec, inclusion), [n |-> 5, e |-> 1])
         ELSE Composite(judge_score, fa, soft_rec, inclusion)
    ELSE llm_trust

\* SAMPLE_SIZE = 1
SAMPLE_SIZE == 1

\* the column Question of the dataset
DatasetQuestions ==
    <<"What is the capital of France?", "Which language do all people in Europe speak?",
      "What happens if you crack your knuckles a lot?">>

\* the sampled questions, in the order of sample_df
SampleQuestions == SubSeq(DatasetQuestions, 1, SAMPLE_SIZE)

\* verifier and comparer outputs of the runs under test
BenchVerifierOutputs ==
    {<<"x">>,
     <<"x", NL>> \o FACTUAL_ACCURACY_SCORE \o <<":", " ", "9", "5">>,
     <<"x", NL>> \o FACTUAL_ACCURACY_SCORE \o <<":", " ", "8", "5", ".", "5", "6", "7">>,
     <<"x", NL>> \o FACTUAL_ACCURACY_SCORE \o <<":", " ", "2", "5", "0">>}

BenchComparerOutputs ==
    {<<"x">>,
     <<"x", NL>> \o FINAL_TRUST_SCORE \o <<":", " ", "9", "2">>,
     <<"x", NL>> \o FINAL_TRUST_SCORE \o <<":", " ", "7", "0", ".", "1", "2", "6">>}

\* what run_hallucination_reduction_system gives the benchmark: a dictionary
\* or a string
Payloads ==
    {BuildResult(("generator_answer" :> <<"x", NL>> \o CONFIDENCE_SCORE \o <<":", " ", "9", "0">>)
                    @@ ("verifier_answer" :> v), c) :
        v \in BenchVerifierOutputs, c \in BenchComparerOutputs}
    \cup {HandleException("Connection error.")}

\* eval_result of evaluate_answer: a score from 0 to 10 and a flag
EvalResults == [score : 0..10, hallucination : BOOLEAN]

\* soft_rec and inclusion of compute_soft_metrics
SoftRecalls == {Dec(0), [n |-> 5, e |-> 1], Dec(1)}

Inclusions == {Dec(0), Dec(1)}

\* Only the row of this turn is written.
to_csv_last(results) == <<results[Len(results)]>>

\* pd.DataFrame(results).to_csv(...): the file holds the rows of results
to_csv(results) == results

\* one turn of the loop, the run, the judge and the soft metrics answering
\* from the given sets: the locals it leaves, the row it appends (of the row,
\* the columns that come from the run and from the judge) and the partial
\* file it overwrites
LoopBody(payloads, eval_results, soft_recs, inclusions) ==
    /\ Len(rows) < Len(sample)
    /\ \E result_payload \in payloads, eval_result \in eval_results,
          soft_rec \in soft_recs, inclusion \in inclusions :
          LET question == sample[Len(rows) + 1]
              isDict == result_payload.kind = "PipelineResult"
              final_answer ==
                  CASE isDict -> result_payload.answer
                    [] result_payload.kind = "Raised" -> <<"Error: ", result_payload.error>>
                    [] OTHER -> result_payload.text
              scores == IF isDict THEN result_payload.scores ELSE EmptyMap
              llm_factual == Get(scores, "Factual Accuracy", Dec(0))
              llm_trust == Get(scores, "Final Trust", Dec(0))
              judge_score == eval_result.score
              hallucination == eval_result.hallucination
              fa == factual_accuracy(llm_factual, judge_score, hallucination)
              ft == final_trust(llm_trust, judge_score, hallucination, fa, soft_rec, inclusion)
              result_entry ==
                  ("Question" :> question)
                  @@ ("System Answer" :> final_answer)
                  @@ ("Score" :> judge_score)
                  @@ ("Hallucination" :> hallucination)
                  @@ ("Confidence" :> Get(scores, "Confidence", Dec(0)))
                  @@ ("Factual Accuracy" :> DecRound(fa, 2))
                  @@ ("Hallucination Score" :> Get(scores, "Hallucination Score", Dec(0)))
                  @@ ("Agreement" :> Get(scores, "Agreement", Dec(0)))
                  @@ ("Final Trust" :> DecRound(ft, 2))
                  @@ ("Soft Recall" :> DecRound(soft_rec, 2))
                  @@ ("Inclusion Score" :> DecRound(inclusion, 2))
          IN /\ rows' = Append(rows, result_entry)
             /\ locals' = [scores |-> scores, judge_score |-> judge_score,
                           hallucination |-> hallucination, soft_rec |-> soft_rec,
                           inclusion |-> inclusion, factual_accuracy |-> fa,
                           final_trust |-> ft]
             /\ partial' = to_csv(rows')
    /\ UNCHANGED <<sample, aggregate>>
    /\ UNCHANGED <<moduleVars, runVars, helper, parseVars, cleanVars, appVars>>

BenchmarkRow == LoopBody(Payloads, EvalResults, SoftRecalls, Inclusions)

RECURSIVE DecSum(_, _)
\* the sum of a column
DecSum(results, column) ==
    IF results = <<>> THEN Dec(0)
    ELSE DecAdd(DecSum(Tail(results), column), Head(results)[column])

RECURSIVE IntSum(_, _)
IntSum(results, column) ==
    IF results = <<>> THEN 0 ELSE Head(results)[column] + IntSum(Tail(results), column)

\* after the loop: the means of the columns of results_df
Summarize ==
    /\ Len(sample) > 0
    /\ Len(rows) = Len(sample)
    /\ aggregate = NoValue
    /\ aggregate' =
          \* each mean is kept as the sum and the number of rows it is divided by
          [avg_score |-> [sum |-> IntSum(rows, "Score"), rows |-> Len(rows)],
           hallucinated |-> Cardinality({k \in 1..Len(rows) : rows[k]["Hallucination"]}),
           avg_fact |-> [sum |-> DecSum(rows, "Factual Accuracy"), rows |-> Len(rows)],
           avg_trust |-> [sum |-> DecSum(rows, "Final Trust"), rows |-> Len(rows)]]
    /\ UNCHANGED <<sample, rows, locals, partial>>
    /\ UNCHANGED <<moduleVars, runVars, helper, parseVars, cleanVars, appVars>>

InitBench ==
    /\ ModuleLoaded
    /\ RunInit
    /\ helper = NoValue
    /\ ParseIdle
    /\ CleanIdle
    /\ BenchStart(SampleQuestions)
    /\ AppIdle

NextBench == BenchmarkRow \/ Summarize

SpecBench == InitBench /\ [][NextBench]_vars

----------------------------------------------------------------------------
(* Specification of the benchmark over samples of several rows, with few
   answers of the run and of the judge for each row *)

\* rows of the largest sample (SAMPLE_SIZE set to it)
MaxRows == 2

\* the samples df.sample can draw: rows of the dataset, none of them twice
Samples ==
    {s \in UNION {[1..n -> {DatasetQuestions[k] : k \in 1..Len(DatasetQuestions)}] :
                     n \in 1..MaxRows} :
        \A i, j \in 1..Len(s) : i # j => s[i] # s[j]}

\* a run that returns its dictionary, one that returns an error string, and
\* one that raises into the except clause of lines 67-69
RowPayloads ==
    {BuildResult(("generator_answer" :> <<"x", NL>> \o CONFIDENCE_SCORE \o <<":", " ", "9", "0">>)
                    @@ ("verifier_answer" :> <<"x">>),
                 <<"x", NL>> \o FINAL_TRUST_SCORE \o <<":", " ", "9", "2">>),
     HandleException("Connection error."),
     [kind |-> "Raised", error |-> "Connection error."]}

BenchmarkRowOfSample ==
    LoopBody(RowPayloads,
             {[score |-> 8, hallucination |-> TRUE], [score |-> 0, hallucination |-> FALSE]},
             {Dec(1)}, {Dec(1)})

InitRows ==
    /\ ModuleLoaded
    /\ RunInit
    /\ helper = NoValue
    /\ ParseIdle
    /\ CleanIdle
    /\ \E s \in Samples : BenchStart(s)
    /\ AppIdle

NextRows == BenchmarkRowOfSample \/ Summarize

SpecRows == InitRows /\ [][NextRows]_vars

----------------------------------------------------------------------------
(* The chat-history store: database.py.

   Every function opens its own connection, runs its statements and commits,
   so each call is one step.  The ids uuid4 gives out are numbered 1, 2, ...;
   0 stands for an id that was never given out. *)

\* chats and messages that callers other than process_query create
MaxChats == 2
MaxMessages == 2

\* INSERT INTO chats (id, title, created_at)
insert_chat(table, chat_id, title) == table @@ (chat_id :> [title |-> title])

\* if not title: title = "New Chat"
chat_title(title) == IF title = "" THEN "New Chat" ELSE title

\* The row is inserted twice.
insert_message_twice(table, msg_id, chat_id, role, content, metadata) ==
    LET row == [id |-> msg_id, chat_id |-> chat_id, role |-> role, content |-> content,
                metadata |-> IF metadata = NoValue THEN NoValue
                             ELSE [kind |-> "json", object |-> metadata]]
    IN Append(Append(table, row), row)

\* metadata_json = json.dumps(metadata) if metadata else None, then
\* INSERT INTO messages (id, chat_id, role, content, metadata, timestamp)
insert_message(table, msg_id, chat_id, role, content, metadata) ==
    Append(table, [id |-> msg_id, chat_id |-> chat_id, role |-> role, content |-> content,
                   metadata |-> IF metadata = NoValue THEN NoValue
                                ELSE [kind |-> "json", object |-> metadata]])

\* FOREIGN KEY (chat_id) REFERENCES chats (id): the INSERT fails for a chat
\* that is not in the table only when the build enforces the clause
insert_raises(fk, table, chat_id) == fk /\ chat_id \notin DOMAIN table

\* Only the row of the chat is deleted.
delete_messages_none(table, chat_id) == table

\* DELETE FROM messages WHERE chat_id = ?
delete_messages(table, chat_id) == SelectSeq(table, LAMBDA m : m.chat_id # chat_id)

\* chat_id: Optional[str] = None of a request without a chat
NoChatId == 0 - 1

\* create_chat(title)
CreateChat(title) ==
    /\ chatIds < MaxChats
    /\ chatIds' = chatIds + 1
    /\ chats' = insert_chat(chats, chatIds', chat_title(title))
    /\ dbOp' = [fn |-> "create_chat", chat_id |-> chatIds', raised |-> FALSE]
    /\ UNCHANGED <<foreign_keys, messages, msgIds>>
    /\ UNCHANGED <<moduleVars, runVars, helper, pureVars, api_keys, request, served>>

\* add_message(chat_id, role, content, metadata)
AddMessage(chat_id, role, content, metadata) ==
    /\ msgIds < MaxMessages
    /\ msgIds' = msgIds + 1
    /\ IF insert_raises(foreign_keys, chats, chat_id)
       THEN /\ dbOp' = [fn |-> "add_message", chat_id |-> chat_id, raised |-> TRUE]
            /\ UNCHANGED messages
       ELSE /\ dbOp' = [fn |-> "add_message", chat_id |-> chat_id, raised |-> FALSE]
            /\ messages' = insert_message(messages, msgIds', chat_id, role, content, metadata)
    /\ UNCHANGED <<foreign_keys, chats, chatIds>>
    /\ UNCHANGED <<moduleVars, runVars, helper, pureVars, api_keys, request, served>>

\* update_chat_title(chat_id, title): UPDATE chats SET title = ? WHERE id = ?
UpdateChatTitle(chat_id, title) ==
    /\ chats' = [c \in DOMAIN chats |-> IF c = chat_id THEN [title |-> title] ELSE chats[c]]
    /\ dbOp' = [fn |-> "update_chat_title", chat_id |-> chat_id, raised |-> FALSE]
    /\ UNCHANGED <<foreign_keys, messages, chatIds, msgIds>>
    /\ UNCHANGED <<moduleVars, runVars, helper, pureVars, api_keys, request, served>>

\* delete_chat(chat_id): the messages of the chat are deleted, then
\* DELETE FROM chats WHERE id = ?
DeleteChat(chat_id) ==
    /\ messages' = delete_messages(messages, chat_id)
    /\ chats' = [c \in DOMAIN chats \ {chat_id} |-> chats[c]]
    /\ dbOp' = [fn |-> "delete_chat", chat_id |-> chat_id, raised |-> FALSE]
    /\ UNCHANGED <<foreign_keys, chatIds, msgIds>>
    /\ UNCHANGED <<moduleVars, runVars, helper, pureVars, api_keys, request, served>>

\* the calls of callers other than process_query; the id a caller passes is
\* one that create_chat has returned, or 0
StoreCall ==
    \/ \E title \in {"", "Capital of France"} : CreateChat(title)
    \/ \E c \in 0..chatIds : AddMessage(c, "user", "hello", NoValue)
    \/ \E c \in 0..chatIds : UpdateChatTitle(c, "Renamed")
    \/ \E c \in 0..chatIds : DeleteChat(c)

InitStore ==
    /\ ModuleLoaded
    /\ RunInit
    /\ helper = NoValue
    /\ ParseIdle
    /\ CleanIdle
    /\ BenchIdle
    /\ foreign_keys \in BOOLEAN
    /\ api_keys = TRUE
    /\ chats = EmptyMap
    /\ messages = <<>>
    /\ chatIds = 0
    /\ msgIds = 0
    /\ dbOp = NoValue
    /\ request = NoValue
    /\ served = 0

SpecStore == InitStore /\ [][StoreCall]_vars

----------------------------------------------------------------------------
(* POST /api/query: process_query of app.py.

   The handler is a coroutine: every await of asyncio.to_thread and of a task
   is a point where other calls on the store run, so each awaited call is one
   step.  request holds the handler's locals and, in log and calls, the
   add_message calls that stored a row and the external calls made so far. *)

\* requests served one after another
MaxRequests == 1

LongQuery == "Which of the official languages of the European Union has the most native speakers?"

\* title = request.query[:50] + "..." if len(request.query) > 50 else request.query
request_title(q) ==
    LET len == (LongQuery :> 83)
        first50 == (LongQuery :> "Which of the official languages of the European Un")
    IN IF len[q] > 50 THEN <<first50[q], "...">> ELSE q

AppGeneratorOutputs == {<<"Paris">>, <<"Lyon">>}

\* what a model call does: it returns a text or raises
Replies(texts) ==
    {[raised |-> FALSE, text |-> t] : t \in texts}
    \cup {[raised |-> TRUE, error |-> "Connection error."]}

Awaiting(pc) == request # NoValue /\ request.pc = pc

\* chat_id = request.chat_id
Receive(req) ==
    /\ request = NoValue
    /\ served < MaxRequests
    /\ served' = served + 1
    /\ request' = [pc |-> "chat_id", request |-> req, chat_id |-> req.chat_id,
                   created |-> 0, log |-> <<>>, calls |-> ZeroCalls, awaited |-> {},
                   generator_answer |-> NoValue, verifier_answer |-> NoValue,
                   search_results |-> NoValue, final_answer |-> NoValue,
                   used |-> NoValue, e |-> NoValue, response |-> NoValue]
    /\ UNCHANGED <<storeVars, api_keys>>
    /\ UNCHANGED <<moduleVars, runVars, helper, pureVars>>

\* if not chat_id: chat_id = await asyncio.to_thread(database.create_chat, title)
HandleChatId ==
    /\ Awaiting("chat_id")
    /\ IF request.chat_id = NoChatId
       THEN /\ chatIds' = chatIds + 1
            /\ chats' = insert_chat(chats, chatIds', chat_title(request_title(request.request.query)))
            /\ dbOp' = [fn |-> "create_chat", chat_id |-> chatIds', raised |-> FALSE]
            /\ request' = [request EXCEPT !.pc = "user", !.chat_id = chatIds',
                                          !.created = @ + 1]
       ELSE /\ request' = [request EXCEPT !.pc = "user"]
            /\ UNCHANGED <<chatIds, chats, dbOp>>
    /\ UNCHANGED <<foreign_keys, messages, msgIds, api_keys, served>>
    /\ UNCHANGED <<moduleVars, runVars, helper, pureVars>>

\* One add_message call of the handler: the row is stored and logged, or the
\* INSERT raises sqlite3.IntegrityError and the handler goes to the place
\* given by raised.
Store(role, content, metadata, stored, raised) ==
    /\ msgIds' = msgIds + 1
    /\ IF insert_raises(foreign_keys, chats, request.chat_id)
       THEN /\ dbOp' = [fn |-> "add_message", chat_id |-> request.chat_id, raised |-> TRUE]
            /\ request' = [request EXCEPT !.pc = raised,
                                          !.e = "FOREIGN KEY constraint failed"]
            /\ UNCHANGED messages
       ELSE /\ dbOp' = [fn |-> "add_message", chat_id |-> request.chat_id, raised |-> FALSE]
            /\ messages' = insert_message(messages, msgIds', request.chat_id, role,
                                          content, metadata)
            /\ request' = [request EXCEPT
                             !.pc = stored,
                             !.log = Append(@, [id |-> msgIds', chat_id |-> request.chat_id,
                                                role |-> role, content |-> content]),
                             !.response = IF stored = "returned" THEN metadata ELSE @]
    /\ UNCHANGED <<foreign_keys, chats, chatIds, api_keys, served>>
    /\ UNCHANGED <<moduleVars, runVars, helper, pureVars>>

\* Save User Message: the call is outside the try, an exception leaves the
\* handler and no QueryResponse is returned
SaveUserMessage ==
    /\ Awaiting("user")
    /\ Store("user", request.request.query, NoValue, "keys", "failed")

\* Check API keys: raise HTTPException(500, ...), or create the three tasks
CheckApiKeys ==
    /\ Awaiting("keys")
    /\ request' =
          IF api_keys THEN [request EXCEPT !.pc = "tasks"]
          ELSE [request EXCEPT
                  !.pc = "except",
                  !.e = <<"500: ", "Missing required API keys. Please configure all API keys.">>]
    /\ UNCHANGED <<storeVars, api_keys, served>>
    /\ UNCHANGED <<moduleVars, runVars, helper, pureVars>>

\* run_generator_async: generator_chain.invoke(query)
GeneratorTask ==
    /\ Awaiting("tasks")
    /\ "generator_task" \notin request.awaited
    /\ \E g \in Replies(AppGeneratorOutputs) :
         request' = [request EXCEPT
                       !.calls = Bump(@, "generator"),
                       !.awaited = @ \cup {"generator_task"},
                       !.generator_answer = IF g.raised THEN <<"Generator error: ", g.error>>
                                            ELSE g.text]
    /\ UNCHANGED <<storeVars, api_keys, served>>
    /\ UNCHANGED <<moduleVars, runVars, helper, pureVars>>

\* run_verifier_async: verifier_chain.invoke(query), the search and then the model
VerifierTask ==
    /\ Awaiting("tasks")
    /\ "verifier_task" \notin request.awaited
    /\ \E v \in Replies({<<"Paris", " ", "x">>}) :
         request' = [request EXCEPT
                       !.calls = Bump(Bump(@, "search"), "verifier"),
                       !.awaited = @ \cup {"verifier_task"},
                       !.verifier_answer = IF v.raised THEN <<"Verifier error: ", v.error>>
                                           ELSE v.text]
    /\ UNCHANGED <<storeVars, api_keys, served>>
    /\ UNCHANGED <<moduleVars, runVars, helper, pureVars>>

\* run_search_async: search_and_format(query)
SearchTask ==
    /\ Awaiting("tasks")
    /\ "search_task" \notin request.awaited
    /\ \E outcome \in {[kind |-> "list",
                         items |-> <<[title |-> "Paris", url |-> "https://example.org/paris",
                                      content |-> "Paris is the capital."]>>],
                        [kind |-> "raise", error |-> "Connection error."]} :
         LET r == search_and_format(request.request.query, outcome) IN
         request' = [request EXCEPT
                       !.calls = Bump(@, "search"),
                       !.awaited = @ \cup {"search_task"},
                       !.search_results = [query |-> r.query, context |-> r.context]]
    /\ UNCHANGED <<storeVars, api_keys, served>>
    /\ UNCHANGED <<moduleVars, runVars, helper, pureVars>>

\* complete_system.invoke(query): RunnableParallel runs generator_chain and
\* verifier_chain again and hands their outputs to comparer_chain; an
\* exception of a branch or of the comparer leaves invoke
complete_system(req, g, v, c) ==
    LET branches == Bump(Bump(Bump(req.calls, "generator"), "search"), "verifier") IN
    IF g.raised THEN [req EXCEPT !.pc = "except", !.e = g.error, !.calls = branches]
    ELSE IF v.raised THEN [req EXCEPT !.pc = "except", !.e = v.error, !.calls = branches]
    ELSE IF c.raised
    THEN [req EXCEPT !.pc = "except", !.e = c.error, !.calls = Bump(branches, "comparer")]
    ELSE [req EXCEPT !.pc = "assistant", !.calls = Bump(branches, "comparer"),
                     !.used = [generator_answer |-> g.text, verifier_answer |-> v.text],
                     !.final_answer = c.text]

\* final_answer = await asyncio.to_thread(complete_system.invoke, request.query),
\* once the three tasks have been awaited
CompleteSystemInvoke ==
    /\ Awaiting("tasks")
    /\ request.awaited = {"generator_task", "verifier_task", "search_task"}
    /\ \E g \in Replies(AppGeneratorOutputs), v \in Replies({<<"Paris", " ", "x">>}),
          c \in Replies({<<"Paris", " ", "x", NL>> \o FINAL_TRUST_SCORE
                            \o <<":", " ", "9", "2">>}) :
         request' = complete_system(request, g, v, c)
    /\ UNCHANGED <<storeVars, api_keys, served>>
    /\ UNCHANGED <<moduleVars, runVars, helper, pureVars>>

\* response_data
response_data(req) ==
    [query |-> req.request.query,
     generator_answer |-> IF req.request.verbose THEN req.generator_answer ELSE NoValue,
     verifier_answer |-> IF req.request.verbose THEN req.verifier_answer ELSE NoValue,
     final_answer |-> req.final_answer,
     success |-> TRUE,
     error |-> NoValue,
     chat_id |-> req.chat_id]

\* error_response
error_response(req) ==
    [query |-> req.request.query,
     generator_answer |-> NoValue,
     verifier_answer |-> NoValue,
     final_answer |-> <<"Error processing query: ", req.e>>,
     success |-> FALSE,
     error |-> req.e,
     chat_id |-> req.chat_id]

\* Save Assistant Message and return QueryResponse(**response_data); the call
\* is inside the try, an exception goes to the except clause
SaveAssistantMessage ==
    /\ Awaiting("assistant")
    /\ Store("assistant", request.final_answer, response_data(request),
             "returned", "except")

\* except Exception as e: Save Error Message and return
\* QueryResponse(**error_response); an exception here leaves the handler
SaveErrorMessage ==
    /\ Awaiting("except")
    /\ Store("assistant", error_response(request).final_answer, error_response(request),
             "returned", "failed")

\* The handler has returned its response, or an exception has left it and
\* the server has answered with status 500: its locals are gone.
Leave ==
    /\ request # NoValue
    /\ request.pc \in {"returned", "failed"}
    /\ request' = NoValue
    /\ UNCHANGED <<storeVars, api_keys, served>>
    /\ UNCHANGED <<moduleVars, runVars, helper, pureVars>>

\* the steps of process_query, and another caller who deletes a chat while
\* requests are served; the chat id a caller passes is one that create_chat
\* has returned, or 0
NextApp ==
    \/ \E c \in (0..chatIds) \cup {NoChatId}, v \in BOOLEAN :
          Receive([query |-> LongQuery, chat_id |-> c, verbose |-> v])
    \/ \E c \in 0..chatIds : DeleteChat(c)
    \/ HandleChatId
    \/ SaveUserMessage
    \/ CheckApiKeys
    \/ GeneratorTask
    \/ VerifierTask
    \/ SearchTask
    \/ CompleteSystemInvoke
    \/ SaveAssistantMessage
    \/ SaveErrorMessage
    \/ Leave

\* The store holds one chat of an earlier session.
InitApp ==
    /\ ModuleLoaded
    /\ RunInit
    /\ helper = NoValue
    /\ ParseIdle
    /\ CleanIdle
    /\ BenchIdle
    /\ foreign_keys \in BOOLEAN
    /\ api_keys \in BOOLEAN
    /\ chats = insert_chat(EmptyMap, 1, chat_title(""))
    /\ messages = <<>>
    /\ chatIds = 1
    /\ msgIds = 0
    /\ dbOp = NoValue
    /\ request = NoValue
    /\ served = 0

SpecApp == InitApp /\ [][NextApp]_vars

----------------------------------------------------------------------------
(* Properties of the pipeline (specification Spec) *)

Finished(branchState) == branchState \in {"done", "raised"}

Returned == state \in {"Done", "Failed", "Raised"}

NotInitialized == ErrorString(<<"System not properly initialized. Please check API keys.">>)

HelperIs(fn) == "fn" \in DOMAIN helper /\ helper.fn = fn

\* C1: the comparer is invoked only after both branches have completed, its
\* input then carries a generator_answer and a verifier_answer, and the
\* result (answer, scores, debug) is built only after the comparer was invoked.
C1_ComparerAfterBothBranches ==
    /\ (state = "Synthesizing" \/ calls.comparer > 0 \/ comparerInput # NoValue) =>
           /\ Finished(genState)
           /\ Finished(verState)
           /\ {"generator_answer", "verifier_answer"} \subseteq DOMAIN comparerInput
           /\ comparerInput["generator_answer"] \in GeneratorOutputs
           /\ comparerInput["verifier_answer"] \in VerifierOutputs
    /\ result.kind = "PipelineResult" =>
           /\ calls.comparer = 1
           /\ Finished(genState)
           /\ Finished(verState)

C1_Witness ==
    /\ state = "Done"
    /\ result.kind = "PipelineResult"
    /\ calls.comparer = 1
    /\ comparerInput["verifier_answer"] = outputs["verifier_answer"]

\* C2: when exactly one of the two branches throws, the comparer is still
\* invoked and receives a non-empty text in place of that branch's answer.
C2_ComparerGetsSentinel ==
    (Returned /\ Cardinality(DOMAIN raisedBy \cap {"generator_answer", "verifier_answer"}) = 1) =>
        /\ calls.comparer = 1
        /\ {"generator_answer", "verifier_answer"} \subseteq DOMAIN comparerInput
        /\ comparerInput["generator_answer"] # <<>>
        /\ comparerInput["verifier_answer"] # <<>>

\* C3: the top-level error string (Failed) is returned only on a
\* configuration error; a run in which a generator, verifier or search call
\* failed still ends in Done with a PipelineResult.
C3_FailedOnlyOnConfiguration ==
    /\ state = "Failed" => (~generator_llm \/ ~verifier_llm \/ ~comparer_llm)
    /\ (Returned /\ DOMAIN raisedBy \cap {"generator_answer", "verifier_answer"} # {}) =>
           (state = "Done" /\ result.kind = "PipelineResult")

\* C4: the call never raises: whatever the calls did, the caller has a
\* PipelineResult or one error string.
C4_NeverRaises ==
    /\ state # "Raised"
    /\ Returned => result.kind \in {"PipelineResult", "ErrorString"}
    /\ result.kind # "Raised"

C4_Witness ==
    /\ state = "Failed"
    /\ "verifier_answer" \in DOMAIN raisedBy
    /\ result = ErrorString(<<"System error: ", raisedBy["verifier_answer"]>>)

OnlyVerifierUnconfigured == generator_llm /\ ~verifier_llm /\ comparer_llm

C6_NoCallWhenUnconfigured ==
    ((~generator_llm \/ ~verifier_llm \/ ~comparer_llm) /\ state # "Idle") =>
        /\ state = "Failed"
        /\ result = NotInitialized
        /\ calls = ZeroCalls
        /\ searched = NoValue

C6_Witness ==
    /\ ~generator_llm
    /\ ~verifier_llm
    /\ comparer_llm
    /\ search_tool
    /\ state = "Failed"
    /\ result = NotInitialized
    /\ calls = ZeroCalls

\* C7: when the comparer call fails after both branches completed, the
\* caller receives "Comparer error: ..." as the final answer, with Agreement
\* and Final Trust 0.0.
C7_ComparerErrorSentinel ==
    (Returned /\ "comparer" \in DOMAIN raisedBy) =>
        /\ result.kind = "PipelineResult"
        /\ result.answer = <<"Comparer error: ", raisedBy["comparer"]>>
        /\ result.scores["Agreement"] = DefaultScore
        /\ result.scores["Final Trust"] = DefaultScore

SearchDone == verState \in {"invoking", "done"} \/ calls.verifier > 0

\* C8: search_and_format never raises and never yields an empty context: a
\* missing tool or a failed call gives a text that explains it, no record
\* gives "No search results found.", and in each case the verifier prompt is
\* rendered with that context and the verifier model is invoked.
C8_SearchNeverFails ==
    /\ "verifier_answer" \in DOMAIN raisedBy => calls.verifier = 1
    /\ verState \notin {"idle", "searching"} => SearchDone
    /\ SearchDone =>
          /\ context # <<>>
          /\ \A k \in 1..Len(context) : context[k] # ""
          /\ ~search_tool =>
                context = <<"Search functionality is not available. Please verify your Tavily API key.">>
          /\ (search_tool /\ searched.kind = "raise") =>
                context = <<"Error performing search: ", searched.error, ". No context available.">>
          /\ (search_tool /\ searched.kind = "text") => context[1] = "Error performing search: "
          /\ (search_tool /\ searched.kind = "list" /\ searched.items = <<>>) =>
                context = <<"No search results found.">>
          /\ verPrompt.values.context = context
          /\ verPrompt.values.query = query
    /\ verState = "invoking" => ENABLED VerifierCall

C8_Witness ==
    /\ search_tool
    /\ searched # NoValue
    /\ searched.kind = "raise"
    /\ verState = "done"
    /\ calls.verifier = 1
    /\ verPrompt.values.context[1] = "Error performing search: "

----------------------------------------------------------------------------
(* Properties of parse_score (specification SpecParse) *)

\* two tokens are the same word in any letter case
SameWord(a, b) ==
    a = b \/ \E w \in UpperWords : {a, b} \subseteq {w, LowerOf(w), TitleOf(w)}

\* the numbers N of the score blocks, as written and as values
BlockNumbers ==
    {[digits |-> <<"9", "0">>, value |-> [n |-> 90, e |-> 0]],
     [digits |-> <<"7">>, value |-> [n |-> 7, e |-> 0]],
     [digits |-> <<"8", ".", "5">>, value |-> [n |-> 85, e |-> 1]]}

\* the well-formed score blocks of a label: LABEL: [N] and LABEL: N, the
\* label in upper, lower or title case, with or without a blank after ":"
ScoreBlocks(label) ==
    {[tokens |-> l \o <<":">> \o ws \o <<"[">> \o num.digits \o <<"]">>,
      bracket |-> TRUE, value |-> num.value] :
        l \in {label, LowerSeq(label), TitleSeq(label)}, ws \in {<<>>, <<" ">>},
        num \in BlockNumbers}
    \cup
    {[tokens |-> l \o <<":">> \o ws \o num.digits, bracket |-> FALSE, value |-> num.value] :
        l \in {label, LowerSeq(label), TitleSeq(label)}, ws \in {<<>>, <<" ">>},
        num \in BlockNumbers}

\* block b stands at position i of the text; a block without brackets ends
\* where its number ends (at the end of the text or before white space)
BlockAt(text, i, b) ==
    LET stop == i + Len(b.tokens) - 1 IN
    /\ stop <= Len(text)
    /\ SubSeq(text, i, stop) = b.tokens
    /\ b.bracket \/ stop = Len(text) \/ text[stop + 1] \in {" ", NL}

\* before position i the text has LABEL: followed, after optional white
\* space and an optional "[", by a digit
EarlierLabelNumber(text, i, label) ==
    \E j \in 1..(i - 1) :
       /\ j + Len(label) <= Len(text)
       /\ \A k \in 1..Len(label) : SameWord(text[j + k - 1], label[k])
       /\ text[j + Len(label)] = ":"
       /\ \E d \in (j + Len(label) + 1)..Len(text) :
             /\ \A k \in (j + Len(label) + 1)..(d - 1) : text[k] \in {" ", NL}
             /\ \/ text[d] \in Digits
                \/ text[d] = "[" /\ d + 1 <= Len(text) /\ text[d + 1] \in Digits

\* C9 as stated: for every text that contains a well-formed score block
\* LABEL: [N] or LABEL: N, parse_score(text, LABEL) returns exactly N.
C9_BlockValueReturned ==
    pPhase = "parsed" =>
        \A b \in ScoreBlocks(pKey) : \A i \in 1..Len(pText) :
            BlockAt(pText, i, b) => pResult = b.value

\* C9 amended: parse_score(text, LABEL) returns exactly the N of a
\* well-formed score block of the text provided that no earlier place of the
\* text has LABEL: followed, after optional white space and an optional "[",
\* by a digit.
C9_FirstBlockValueReturned ==
    pPhase = "parsed" =>
        \A b \in ScoreBlocks(pKey) : \A i \in 1..Len(pText) :
            (BlockAt(pText, i, b) /\ ~EarlierLabelNumber(pText, i, pKey)) =>
                pResult = b.value

C9_Witness ==
    /\ pPhase = "parsed"
    /\ pKey = FACTUAL_ACCURACY_SCORE
    /\ \E i \in 2..Len(pText) :
          /\ BlockAt(pText, i, [tokens |-> LowerSeq(pKey) \o <<":", "8", ".", "5">>,
                                bracket |-> FALSE, value |-> [n |-> 85, e |-> 1]])
          /\ ~EarlierLabelNumber(pText, i, pKey)
    /\ pResult = [n |-> 85, e |-> 1]

\* the text has no occurrence of the label in any of the forms parse_score
\* looks for: all of them hold the label's leading word or, for a label with
\* TRUST, the word Trust
NoLabelForm(text, key) ==
    \A k \in 1..Len(text) :
       /\ ~SameWord(text[k], short_key(key))
       /\ KeyHas(key, "TRUST") => ~SameWord(text[k], "TRUST")

\* C10: for every text with no occurrence of the label in any of the five
\* forms parse_score returns 0.0; it returns a number in every case.
C10_DefaultWhenLabelAbsent ==
    pPhase = "parsed" =>
        /\ pResult \in [n : Nat, e : Nat]
        /\ NoLabelForm(pText, pKey) => pResult = [n |-> 0, e |-> 0]

C10_Witness ==
    /\ pPhase = "parsed"
    /\ pKey = AGREEMENT_SCORE
    /\ NoLabelForm(pText, pKey)
    /\ \E i \in 1..Len(pText) : pText[i] = "Trust"
    /\ \E i \in 1..Len(pText) : pText[i] \in Digits
    /\ pResult = [n |-> 0, e |-> 0]

----------------------------------------------------------------------------
(* Properties of the order of parse_score's patterns (specification SpecOrder) *)

\* what the k-th strategy of the list finds in the text for the label
StrategyMatch(k, text, key) ==
    CASE k = 1 -> SearchLabelColon(text, key)
      [] k = 2 -> SearchLabelColon(text, key_spaced(key))
      [] k = 3 -> IF KeyHas(key, "TRUST") THEN SearchWordThenColon(text, "Trust") ELSE NoMatch
      [] k = 4 -> SearchWordThenColon(text, short_key(key))
      [] k = 5 -> SearchWordThenNumber(text, short_key(key))

\* C11: parse_score returns the number found by the first strategy, in the
\* order exact label, spaced label, loose Trust (labels with Trust only),
\* leading token up to a colon, first number after the leading token, that
\* matches, and never the number of a later strategy.
C11_FirstStrategyWins ==
    pPhase = "parsed" =>
        \A k \in 1..5 :
           (/\ StrategyMatch(k, pText, pKey).ok
            /\ \A j \in 1..(k - 1) : ~StrategyMatch(j, pText, pKey).ok)
           => pResult = StrategyMatch(k, pText, pKey).value

\* the loose Trust strategy and the truncated-label strategy both match, with
\* different numbers, the truncated label standing first in the text
C11_Witness ==
    /\ pPhase = "parsed"
    /\ pKey = FINAL_TRUST_SCORE
    /\ pText = <<"Final", " ", "x", ":", " ", "6", NL, "Trust", ":", " ", "4">>
    /\ ~StrategyMatch(1, pText, pKey).ok
    /\ ~StrategyMatch(2, pText, pKey).ok
    /\ StrategyMatch(3, pText, pKey).value = [n |-> 4, e |-> 0]
    /\ StrategyMatch(4, pText, pKey).value = [n |-> 6, e |-> 0]
    /\ pResult = [n |-> 4, e |-> 0]

----------------------------------------------------------------------------
(* Properties of the structured return (specification Spec) *)

ScoreNames == {"Confidence", "Factual Accuracy", "Hallucination Score", "Agreement",
               "Final Trust"}

\* a float n / 10^e lies in [0, 100]
InPercentRange(f) == f.n >= 0 /\ f.n <= 100 * 10^(f.e)

\* C12: every value of the scores mapping of a PipelineResult is a number in
\* [0, 100], whatever the models returned, and 0.0 when the text cannot be
\* parsed.
C12_ScoresInRange ==
    state = "Done" =>
        /\ DOMAIN result.scores = ScoreNames
        /\ \A name \in ScoreNames :
              /\ result.scores[name] \in [n : Nat, e : Nat]
              /\ InPercentRange(result.scores[name])
        /\ comparerInput["generator_answer"] = <<"x">>
              => result.scores["Confidence"] = [n |-> 0, e |-> 0]

----------------------------------------------------------------------------
(* Properties of the answer clean-up (specification SpecClean) *)

\* the tokens of pat stand in the text at i, spelled as in pat
ExactAt(text, i, pat) ==
    /\ i + Len(pat) - 1 <= Len(text)
    /\ SubSeq(text, i, i + Len(pat) - 1) = pat

\* the label stands in the text at i in any letter case, a colon next to it
LabelColonAt(text, i, label) ==
    /\ i + Len(label) <= Len(text)
    /\ \A k \in 1..Len(label) : SameWord(text[i + k - 1], label[k])
    /\ text[i + Len(label)] = ":"

\* the text up to the first place that satisfies At, the whole text if none
Before(text, At(_)) ==
    LET places == {i \in 1..Len(text) : At(i)}
    IN IF places = {} THEN text
       ELSE SubSeq(text, 1, (CHOOSE i \in places : \A j \in places : i <= j) - 1)

\* the text with everything from the first "LABEL:" onward removed
RemoveFrom(text, label) ==
    LET At(i) == ExactAt(text, i, label \o <<":">>) IN Before(text, At)

\* the same, the label found in any letter case
RemoveFromAnyCase(text, label) ==
    LET At(i) == LabelColonAt(text, i, label) IN Before(text, At)

\* the text without the white space at its two ends
Trimmed(text) ==
    LET solid == {i \in 1..Len(text) : text[i] \notin {" ", NL}}
    IN IF solid = {} THEN <<>>
       ELSE SubSeq(text, CHOOSE i \in solid : \A j \in solid : i <= j,
                         CHOOSE i \in solid : \A j \in solid : i >= j)

ContainsLabelColon(text, label) == \E i \in 1..Len(text) : LabelColonAt(text, i, label)

\* C13 as stated: the answer is the raw output with everything from the
\* first "AGREEMENT_SCORE:" onward removed and then everything from the first
\* "FINAL_TRUST_SCORE:" onward removed, and holds neither label followed by a
\* colon.
C13_AnswerIsRawCut ==
    cPhase = "cleaned" =>
        /\ cAnswer = RemoveFrom(RemoveFrom(cText, AGREEMENT_SCORE), FINAL_TRUST_SCORE)
        /\ \A i \in 1..Len(cAnswer) :
              /\ ~ExactAt(cAnswer, i, AGREEMENT_SCORE \o <<":">>)
              /\ ~ExactAt(cAnswer, i, FINAL_TRUST_SCORE \o <<":">>)

\* C13 amended: each removal finds its label in any letter case and is
\* followed by stripping the white space at both ends; the answer holds
\* neither label followed by a colon, in any letter case.
C13_AnswerIsRawCutAndStripped ==
    cPhase = "cleaned" =>
        /\ cAnswer = Trimmed(RemoveFromAnyCase(
                        Trimmed(RemoveFromAnyCase(cText, AGREEMENT_SCORE)),
                        FINAL_TRUST_SCORE))
        /\ ~ContainsLabelColon(cAnswer, AGREEMENT_SCORE)
        /\ ~ContainsLabelColon(cAnswer, FINAL_TRUST_SCORE)

\* FINAL_TRUST_SCORE: stands before AGREEMENT_SCORE: in the raw output
C13_Witness ==
    /\ cPhase = "cleaned"
    /\ cText = <<"x", NL>> \o FINAL_TRUST_SCORE \o <<":", " ", "9", "2">>
                  \o AGREEMENT_SCORE \o <<":", " ", "8", "8">>
    /\ cAnswer = <<"x">>

\* C14: cleaning a cleaned answer changes nothing.
C14_CleanIdempotent ==
    cPhase = "again" => cAgain = cAnswer

\* a second pass over an answer that the first pass did cut
C14_Witness ==
    /\ cPhase = "again"
    /\ cText = <<"x", " ", NL>> \o FINAL_TRUST_SCORE \o <<":", " ", "9", "2">>
    /\ cAnswer = <<"x">>
    /\ cAgain = <<"x">>

\* the whole number v as a score
Score(v) == [n |-> v, e |-> 0]

\* the texts of the example: a generator answer that ends with
\* CONFIDENCE_SCORE: 90, a verifier answer with FACTUAL_ACCURACY_SCORE: 95 and
\* HALLUCINATION_SCORE: 2, a comparer answer with AGREEMENT_SCORE: 88 and
\* FINAL_TRUST_SCORE: 92
ExampleGenerator == <<"x", NL>> \o CONFIDENCE_SCORE \o <<":", " ", "9", "0">>

ExampleVerifier ==
    <<"x", NL>> \o FACTUAL_ACCURACY_SCORE \o <<":", " ", "9", "5", NL>>
       \o HALLUCINATION_SCORE \o <<":", " ", "2">>

ExampleComparer ==
    <<"Paris", " ", "x", NL>> \o AGREEMENT_SCORE \o <<":", " ", "8", "8", NL>>
       \o FINAL_TRUST_SCORE \o <<":", " ", "9", "2">>

\* C15: Confidence comes from the generator's output, Factual Accuracy and
\* Hallucination Score from the verifier's, Agreement and Final Trust from
\* the comparer's raw output before it is trimmed, and the debug fields are
\* the generator and verifier texts the comparer was given; the example
\* texts give 90, 95, 2, 88, 92 and the answer without its score lines.
C15_ScoresFromTheirStage ==
    state = "Done" =>
        LET gen == outputs["generator_answer"]
            ver == outputs["verifier_answer"]
        IN /\ comparerInput["generator_answer"] = gen
           /\ comparerInput["verifier_answer"] = ver
           /\ result.debug = [generator_raw |-> gen, verifier_raw |-> ver]
           /\ gen = ExampleGenerator => result.scores["Confidence"] = Score(90)
           /\ gen = <<"x">> => result.scores["Confidence"] = Score(0)
           /\ ver = ExampleVerifier =>
                 /\ result.scores["Factual Accuracy"] = Score(95)
                 /\ result.scores["Hallucination Score"] = Score(2)
           /\ ver = <<"x">> =>
                 /\ result.scores["Factual Accuracy"] = Score(0)
                 /\ result.scores["Hallucination Score"] = Score(0)
           /\ comparerOutput = ExampleComparer =>
                 /\ result.scores["Agreement"] = Score(88)
                 /\ result.scores["Final Trust"] = Score(92)
                 /\ result.answer = <<"Paris", " ", "x">>
           /\ comparerOutput = <<"x">> =>
                 /\ result.scores["Agreement"] = Score(0)
                 /\ result.scores["Final Trust"] = Score(0)
                 /\ result.answer = <<"x">>

\* the run of the example
C15_Witness ==
    /\ state = "Done"
    /\ outputs["generator_answer"] = ExampleGenerator
    /\ outputs["verifier_answer"] = ExampleVerifier
    /\ comparerOutput = ExampleComparer
    /\ result.scores["Confidence"] = Score(90)
    /\ result.scores["Agreement"] = Score(88)
    /\ result.scores["Final Trust"] = Score(92)
    /\ result.answer = <<"Paris", " ", "x">>

----------------------------------------------------------------------------
(* Properties of the prompts and the domain profiles (specification Spec) *)

\* a run that got past the check of its chains
ChainsInUse == state \in {"GeneratingAndVerifying", "Synthesizing", "Done"}

\* C16: each label parsed from a stage's output is asked for by the prompt
\* template of that stage, in every domain: CONFIDENCE_SCORE by the
\* generator's, FACTUAL_ACCURACY_SCORE and HALLUCINATION_SCORE by the
\* verifier's, AGREEMENT_SCORE and FINAL_TRUST_SCORE by the comparer's.
C16_ParsedLabelsRequested ==
    ChainsInUse =>
        LET domain_chains == create_domain_chains(domain)
        IN /\ CONFIDENCE_SCORE \in domain_chains.generator_chain.template.requests
           /\ {FACTUAL_ACCURACY_SCORE, HALLUCINATION_SCORE}
                 \subseteq domain_chains.verifier_chain.template.requests
           /\ {AGREEMENT_SCORE, FINAL_TRUST_SCORE}
                 \subseteq domain_chains.comparer_chain.template.requests

\* the profile a run with this domain key works with
ProfileOf(d) == IF d \in DomainKeys THEN DOMAINS[d] ELSE DOMAINS["general"]

\* the verifier's prompt has been rendered
VerifierPrompted == ChainsInUse /\ verState \in {"invoking", "done"}

\* C17 as stated: the profile's system_prompt is the preamble of all three
\* prompts.
C17_SamePreambleInAllPrompts ==
    ChainsInUse =>
        LET domain_chains == create_domain_chains(domain)
            system_prompt == ProfileOf(domain).system_prompt
        IN /\ domain_chains.generator_chain.template.preamble = <<system_prompt>>
           /\ domain_chains.verifier_chain.template.preamble = <<system_prompt>>
           /\ domain_chains.comparer_chain.template.preamble = <<system_prompt>>

\* C17 amended: the profile's system_prompt is the preamble of the
\* generator's prompt only; the preambles of the verifier's and the
\* comparer's prompt are fixed sentences around the profile's description in
\* lower case; name and icon go into no prompt.
C17_PreamblesFromProfile ==
    ChainsInUse =>
        LET domain_chains == create_domain_chains(domain)
            profile == ProfileOf(domain)
            ver_preamble ==
                <<"You are a factual assistant specialized in ",
                  str_lower(profile.description),
                  ". Answer the following user query based ONLY on the provided search results context. Do not use any of your internal knowledge.">>
            comp_preamble ==
                <<"You are a meticulous fact-checking and synthesis agent specialized in ",
                  str_lower(profile.description),
                  ". Your goal is to produce the most accurate and reliable answer to the user's query by comparing two different AI-generated answers.">>
        IN /\ domain_chains.generator_chain.template.preamble = <<profile.system_prompt>>
           /\ domain_chains.verifier_chain.template.preamble = ver_preamble
           /\ domain_chains.comparer_chain.template.preamble = comp_preamble
           /\ VerifierPrompted => verPrompt.preamble = ver_preamble

\* a medical run whose verifier prompt speaks of the description, not of the
\* system_prompt
C17_Witness ==
    /\ state = "Done"
    /\ domain = "medical"
    /\ verPrompt.preamble[2] = "healthcare and medical information specialist"
    /\ create_domain_chains(domain).generator_chain.template.preamble
          = <<"You are a medical information assistant.">>

SixKeys == {"general", "medical", "legal", "financial", "educational", "technical"}

\* C18: get_domain_config returns the profile stored under the key for the
\* six keys and the general profile for every other key, and the set of
\* profiles is never changed by a lookup or by a pipeline run.
C18_LookupLeavesProfiles ==
    /\ profiles = DOMAINS
    /\ DOMAIN profiles = SixKeys
    /\ \A d \in SixKeys \cup DomainInputs :
          get_domain_config(d) = IF d \in SixKeys THEN DOMAINS[d] ELSE DOMAINS["general"]
    /\ ChainsInUse =>
          create_domain_chains(domain).domain_config
             = IF domain \in SixKeys THEN DOMAINS[domain] ELSE DOMAINS["general"]

\* a finished run under a key that is none of the six
C18_Witness ==
    /\ state = "Done"
    /\ domain = "astrology"
    /\ domain \notin SixKeys
    /\ verPrompt.preamble[2] = "general-purpose ai assistant for any topic"
    /\ profiles = DOMAINS

----------------------------------------------------------------------------
(* Properties of the benchmark's fall-back metrics (specification SpecBench) *)

\* a decimal in units of 0.00001
Units(f) == f.n * 10^(5 - f.e)

\* the row the last turn of the loop recorded
LastRow == rows[Len(rows)]

\* the run reported no such score, or reported zero
ZeroOrAbsent(name) == name \notin DOMAIN locals.scores \/ locals.scores[name].n = 0

\* judgeScore / 10 * 100, halved if the row is flagged as hallucinated
JudgeFallbackUnits ==
    IF locals.hallucination
    THEN 5 * locals.judge_score * 100000
    ELSE 10 * locals.judge_score * 100000

\* recorded is value rounded to two decimals
RoundedToTwoDecimals(recorded, valueUnits) ==
    /\ recorded.e <= 2
    /\ Units(recorded) - valueUnits <= 500
    /\ valueUnits - Units(recorded) <= 500

\* C19 as stated: a zero or absent self-reported Factual Accuracy is
\* recorded as judgeScore/10*100, halved if hallucinated; a non-zero one is
\* recorded unchanged.
C19_FactualFallbackOrUnchanged ==
    rows # <<>> =>
        /\ ZeroOrAbsent("Factual Accuracy") =>
              Units(LastRow["Factual Accuracy"]) = JudgeFallbackUnits
        /\ ~ZeroOrAbsent("Factual Accuracy") =>
              LastRow["Factual Accuracy"] = locals.scores["Factual Accuracy"]

\* C19 amended: a non-zero self-reported Factual Accuracy is recorded rounded
\* to two decimals.
C19_FactualFallbackOrRounded ==
    rows # <<>> =>
        /\ ZeroOrAbsent("Factual Accuracy") =>
              Units(LastRow["Factual Accuracy"]) = JudgeFallbackUnits
        /\ ~ZeroOrAbsent("Factual Accuracy") =>
              RoundedToTwoDecimals(LastRow["Factual Accuracy"],
                                   Units(locals.scores["Factual Accuracy"]))

\* judge score 8, hallucinated, self-reported Factual Accuracy 0: 40.0
C19_Witness ==
    /\ rows # <<>>
    /\ locals.judge_score = 8
    /\ locals.hallucination
    /\ "Factual Accuracy" \in DOMAIN locals.scores
    /\ locals.scores["Factual Accuracy"] = [n |-> 0, e |-> 0]
    /\ LastRow["Factual Accuracy"] = [n |-> 40, e |-> 0]

\* the Factual Accuracy that enters the composite: the fall-back value or
\* the self-reported one
FactualUnits ==
    IF ZeroOrAbsent("Factual Accuracy") THEN JudgeFallbackUnits
    ELSE Units(locals.scores["Factual Accuracy"])

\* 0.40*(judgeScore/10*100) + 0.30*FactualAccuracy + 0.20*(softRecall*100)
\* + 0.10*(inclusion*100), halved if hallucinated
CompositeUnits ==
    LET sum == 4 * locals.judge_score * 100000 + (3 * FactualUnits) \div 10
               + 20 * Units(locals.soft_rec) + 10 * Units(locals.inclusion)
    IN IF locals.hallucination THEN sum \div 2 ELSE sum

\* C20 as stated: a zero or absent self-reported Final Trust is recorded as
\* the composite, halved if hallucinated, for every judge score from 0 to
\* 10, and the value lies in [0, 100].
C20_TrustIsComposite ==
    (rows # <<>> /\ ZeroOrAbsent("Final Trust")) =>
        /\ locals.judge_score \in 0..10
        /\ Units(LastRow["Final Trust"]) = CompositeUnits
        /\ Units(LastRow["Final Trust"]) >= 0
        /\ Units(LastRow["Final Trust"]) <= 100 * 100000

\* C20 amended: for a judge score from 1 to 10 the recorded value is the
\* composite, halved if hallucinated, rounded to two decimals; for the judge
\* score 0 it is 0; it is never negative, and at most 100 when the Factual
\* Accuracy that enters the composite is at most 100.
C20_TrustIsCompositeForPositiveJudge ==
    (rows # <<>> /\ ZeroOrAbsent("Final Trust")) =>
        /\ locals.judge_score \in 1..10 =>
              RoundedToTwoDecimals(LastRow["Final Trust"], CompositeUnits)
        /\ locals.judge_score = 0 => LastRow["Final Trust"] = [n |-> 0, e |-> 0]
        /\ Units(LastRow["Final Trust"]) >= 0
        /\ FactualUnits <= 100 * 100000 => Units(LastRow["Final Trust"]) <= 100 * 100000

\* judge score 8, hallucinated, no scores reported, soft recall 0.5,
\* inclusion 1: (32 + 12 + 10 + 10) / 2
C20_Witness ==
    /\ rows # <<>>
    /\ locals.scores = EmptyMap
    /\ locals.judge_score = 8
    /\ locals.hallucination
    /\ locals.soft_rec = [n |-> 5, e |-> 1]
    /\ locals.inclusion = [n |-> 1, e |-> 0]
    /\ LastRow["Factual Accuracy"] = [n |-> 40, e |-> 0]
    /\ LastRow["Final Trust"] = [n |-> 32, e |-> 0]

----------------------------------------------------------------------------
(* Properties of the benchmark's records (specification SpecRows) *)

\* C21: the benchmark has one record per sampled row, in sample order, also
\* for rows whose run returned an error string or raised; after the k-th row
\* the partial file holds exactly the records of rows 1..k in that order; the
\* aggregate is computed only after the last row, over all rows.
C21_RecordsInSampleOrder ==
    /\ Len(rows) <= Len(sample)
    /\ \A k \in 1..Len(rows) : rows[k]["Question"] = sample[k]
    /\ IF rows = <<>> THEN partial = NoValue
       ELSE /\ Len(partial) = Len(rows)
            /\ \A k \in 1..Len(rows) : partial[k] = rows[k]
    /\ aggregate # NoValue =>
          /\ Len(rows) = Len(sample)
          /\ aggregate.avg_score.rows = Len(sample)
          /\ aggregate.avg_trust.rows = Len(sample)

\* a sample of two rows, the first run raised, the second returned an error
\* string, and the aggregate has been computed
C21_Witness ==
    /\ Len(sample) = 2
    /\ Len(rows) = 2
    /\ rows[1]["System Answer"] = <<"Error: ", "Connection error.">>
    /\ rows[2]["System Answer"] = <<"System error: ", "Connection error.">>
    /\ rows[1]["Question"] = sample[1]
    /\ rows[2]["Question"] = sample[2]
    /\ Len(partial) = 2
    /\ aggregate # NoValue

----------------------------------------------------------------------------
(* Properties of the chat-history store (specification SpecStore) *)

IsPrefix(s, t) == Len(s) <= Len(t) /\ SubSeq(t, 1, Len(s)) = s

\* the rows of a table that do not belong to the chat
RowsNotOf(table, chat_id) == SelectSeq(table, LAMBDA m : m.chat_id # chat_id)

\* C22 as stated: the store is append-only, every chat and every message that
\* is stored is still stored after any call, with the same title, role,
\* content and metadata.
C22_AppendOnly ==
    [][/\ \A c \in DOMAIN chats : c \in DOMAIN chats' /\ chats'[c] = chats[c]
       /\ IsPrefix(messages, messages')]_vars

\* C22 amended: create_chat and add_message only add rows and no call changes
\* a stored message; a chat's title changes only in update_chat_title of that
\* chat, and rows are removed only in delete_chat, which removes the chat it
\* is given and exactly the messages of that chat.
C22_OnlyRenameAndDeleteChange ==
    [][/\ \A c \in DOMAIN chats :
            /\ c \notin DOMAIN chats' =>
                  dbOp'.fn = "delete_chat" /\ dbOp'.chat_id = c
            /\ (c \in DOMAIN chats' /\ chats'[c] # chats[c]) =>
                  dbOp'.fn = "update_chat_title" /\ dbOp'.chat_id = c
       /\ \/ IsPrefix(messages, messages')
          \/ /\ dbOp'.fn = "delete_chat"
             /\ messages' = RowsNotOf(messages, dbOp'.chat_id)
       /\ dbOp'.fn = "delete_chat" =>
             /\ messages' = RowsNotOf(messages, dbOp'.chat_id)
             /\ DOMAIN chats' = DOMAIN chats \ {dbOp'.chat_id}]_vars

\* a chat that was created and a message that was stored have been deleted
C22_Witness ==
    /\ dbOp # NoValue
    /\ dbOp.fn = "delete_chat"
    /\ dbOp.chat_id \in 1..chatIds
    /\ dbOp.chat_id \notin DOMAIN chats
    /\ msgIds > 0
    /\ messages = <<>>

----------------------------------------------------------------------------
(* Properties of the verifier branch (specification Spec) *)

\* C23: in the verifier branch the search and the model call are sequential.
\* search_and_format runs once, before the model; the verifier model is
\* called once, only after search_and_format of the same run has returned its
\* context (results or a failure text), and the prompt it is given holds the
\* run's query and that context.
C23_SearchThenVerifier ==
    [][/\ calls'.verifier > calls.verifier =>
            /\ verState = "invoking"
            /\ calls.verifier = 0
            /\ calls'.verifier = 1
            /\ calls'.search = calls.search
            /\ calls.search = IF search_tool THEN 1 ELSE 0
            /\ verPrompt # NoValue
            /\ DOMAIN verPrompt.values = {"query", "context"}
            /\ verPrompt.values.query = query
            /\ verPrompt.values.context = context
            /\ context = search_and_format(query, searched).context
       /\ (verState' = "invoking" /\ verState # "invoking") =>
            /\ verState = "searching"
            /\ calls.verifier = 0
            /\ context' = search_and_format(query, searched').context
       /\ calls'.search > calls.search =>
            /\ verState = "searching"
            /\ calls.search = 0
            /\ calls'.search = 1]_vars

\* the verifier model has been called after a search that returned results
C23_Witness ==
    /\ calls.verifier = 1
    /\ calls.search = 1
    /\ searched # NoValue
    /\ searched.kind = "list"
    /\ Len(searched.items) > 0
    /\ verState = "done"

----------------------------------------------------------------------------
(* Properties of the fan-in (specification Spec) *)

\* what the run returns for given responses of the search and the models: the
\* generator's exception, else the verifier's, else the comparer's, else the
\* PipelineResult built from the two answers and the comparer's output
ResultOf(q, answers, raised, comparer_output) ==
    IF "generator_answer" \in DOMAIN raised THEN HandleException(raised["generator_answer"])
    ELSE IF "verifier_answer" \in DOMAIN raised THEN HandleException(raised["verifier_answer"])
    ELSE IF "comparer" \in DOMAIN raised THEN HandleException(raised["comparer"])
    ELSE BuildResult(("query" :> q) @@ answers, comparer_output)

\* C24: the two branches share no state.  Whatever the order of the steps of
\* the generator branch and of the verifier branch, and whichever finishes
\* first, a run that has got past the check of its chains returns the value
\* that the responses of the search and of the models determine; each branch
\* has recorded its own response only.
C24_ResultIndependentOfInterleaving ==
    /\ state \in {"GeneratingAndVerifying", "Synthesizing", "Done"} =>
          /\ DOMAIN outputs \cap DOMAIN raisedBy = {}
          /\ ("generator_answer" \in DOMAIN outputs) = (genState = "done")
          /\ ("generator_answer" \in DOMAIN raisedBy) = (genState = "raised")
          /\ ("verifier_answer" \in DOMAIN outputs) = (verState = "done")
          /\ ("verifier_answer" \in DOMAIN raisedBy) = (verState = "raised")
    /\ (state \in {"Done", "Failed", "Raised"} /\ genState # "idle") =>
          /\ Finished(genState)
          /\ Finished(verState)
          /\ result = ResultOf(query, outputs, raisedBy, comparerOutput)

\* both branches have raised, with different exceptions, and the run has
\* returned
C24_Witness ==
    /\ state = "Failed"
    /\ genState = "raised"
    /\ verState = "raised"
    /\ raisedBy["generator_answer"] # raisedBy["verifier_answer"]
    /\ result = HandleException(raisedBy["generator_answer"])

----------------------------------------------------------------------------
(* Termination of a run (specification FairSpec) *)

Running == state \in {"GeneratingAndVerifying", "Synthesizing"}

\* C25: provided every external call returns or raises in the end, every run
\* that was started returns to its caller: the fan-in waits for the branch
\* that finishes last and, when a branch has failed, does not wait for an
\* answer of it.
C25_EveryRunReturns == Running ~> (state \in {"Done", "Failed", "Raised"})

\* a run has returned after its verifier branch failed and its generator
\* branch answered
C25_Witness ==
    /\ state = "Failed"
    /\ genState = "done"
    /\ verState = "raised"
    /\ result = HandleException(raisedBy["verifier_answer"])

----------------------------------------------------------------------------
(* Properties of the fallback pattern of parse_score (specification
   SpecFallback) *)

\* where the leading token of the label occurs, in any letter case
LeadingTokenAt(text, key) ==
    {i \in 1..Len(text) : FoldCase(text[i]) = FoldCase(short_key(key))}

NoEarlierStrategy(text, key) == \A k \in 1..4 : ~StrategyMatch(k, text, key).ok

\* the digits after place i
DigitsAfter(text, i) == {j \in (i + 1)..Len(text) : text[j] \in Digits}

\* the digits after place i with no line break before them
DigitsOnLineAfter(text, i) ==
    {j \in DigitsAfter(text, i) : \A k \in i..j : text[k] # NL}

\* C26 as stated: when none of the first four strategies matches, parse_score
\* returns the first number anywhere in the text after the first occurrence
\* of the label's leading token, whether or not a colon or a line break lies
\* between the token and the number.
C26_FirstNumberAfterToken ==
    (/\ pPhase = "parsed"
     /\ NoEarlierStrategy(pText, pKey)
     /\ LeadingTokenAt(pText, pKey) # {}
     /\ DigitsAfter(pText, Min(LeadingTokenAt(pText, pKey))) # {})
    => pResult = NumberAt(pText,
                   Min(DigitsAfter(pText, Min(LeadingTokenAt(pText, pKey))))).value

\* C26 amended: when none of the first four strategies matches, parse_score
\* returns the first number that follows the label's leading token on the
\* same line, with or without a colon in between, for the first occurrence
\* of the token that has a number after it on its line; when no occurrence
\* has one, it returns the default.
C26_FirstNumberOnLineOfToken ==
    (pPhase = "parsed" /\ NoEarlierStrategy(pText, pKey)) =>
        LET occurrences == {i \in LeadingTokenAt(pText, pKey) :
                              DigitsOnLineAfter(pText, i) # {}}
        IN IF occurrences = {} THEN pResult = DefaultScore
           ELSE pResult = NumberAt(pText,
                             Min(DigitsOnLineAfter(pText, Min(occurrences)))).value

\* the fallback has read a number that follows the token after a colon and
\* a word
C26_Witness ==
    /\ pPhase = "parsed"
    /\ pKey = FACTUAL_ACCURACY_SCORE
    /\ pText = <<"factual", ":", " ", "x", " ", "7">>
    /\ NoEarlierStrategy(pText, pKey)
    /\ pResult = [n |-> 7, e |-> 0]

----------------------------------------------------------------------------
(* Properties of process_query (specification SpecApp) *)

Responded == request # NoValue /\ request.pc = "returned"

\* a row without its metadata
Plain(row) == [id |-> row.id, chat_id |-> row.chat_id, role |-> row.role,
               content |-> row.content]

\* the rows of the table that the request's calls of add_message inserted
RowsOfRequest ==
    LET ids == {request.log[i].id : i \in 1..Len(request.log)}
        inserted == SelectSeq(messages, LAMBDA m : m.id \in ids)
    IN [i \in 1..Len(inserted) |-> Plain(inserted[i])]

IsSuffix(s, t) == Len(s) <= Len(t) /\ SubSeq(t, Len(t) - Len(s) + 1, Len(t)) = s

\* C27: a request that returns a response has stored, for the chat whose id
\* it returns, exactly one user message holding the query and after it
\* exactly one assistant message holding the returned final_answer, on
\* success and on failure alike; when the request names no chat, exactly one
\* chat was created for it before the user message was stored, and none
\* otherwise.  Rows are missing from the table only if another caller has
\* deleted the chat since.
C27_OneUserThenOneAssistantMessage ==
    Responded =>
        /\ Len(request.log) = 2
        /\ request.log[1].role = "user"
        /\ request.log[1].content = request.request.query
        /\ request.log[2].role = "assistant"
        /\ request.log[2].content = request.response.final_answer
        /\ request.log[1].chat_id = request.response.chat_id
        /\ request.log[2].chat_id = request.response.chat_id
        /\ request.log[1].id < request.log[2].id
        /\ request.created = IF request.request.chat_id = NoChatId THEN 1 ELSE 0
        /\ request.request.chat_id # NoChatId =>
              request.response.chat_id = request.request.chat_id
        /\ request.request.chat_id = NoChatId =>
              /\ request.response.chat_id \in 1..chatIds
              /\ request.response.chat_id < 1 + chatIds
        /\ IsSuffix(RowsOfRequest, request.log)
        /\ request.response.chat_id \in DOMAIN chats => RowsOfRequest = request.log

\* a request without a chat id has failed for missing keys and has returned
\* its error response; the chat made for it holds the two messages
C27_Witness ==
    /\ Responded
    /\ ~api_keys
    /\ request.request.chat_id = NoChatId
    /\ request.response.success = FALSE
    /\ request.response.chat_id \in DOMAIN chats
    /\ RowsOfRequest = request.log
    /\ request.log[2].content =
          <<"Error processing query: ",
            <<"500: ", "Missing required API keys. Please configure all API keys.">>>>

C29_EveryMessageHasItsChat ==
    \A i \in 1..Len(messages) : messages[i].chat_id \in DOMAIN chats

----------------------------------------------------------------------------
(* Properties of the score block (specification SpecScoreBlock) *)

\* the match of the first strategy of parse_score that finds a number
ReadBy(text, key) ==
    StrategyMatch(Min({k \in 1..5 : StrategyMatch(k, text, key).ok}), text, key)

\* the white space at the start of a text
LeadingSpaces(text) ==
    Cardinality({i \in 1..Len(text) : \A j \in 1..i : IsSpace(text[j])})

\* the place in the raw output where the cleaned answer ends
CleanedEnd == LeadingSpaces(cText) + Len(cAnswer)

\* C30: whenever parse_score finds a non-default Agreement or Final Trust
\* value in the comparer's raw output, by whichever strategy, the number it
\* read lies in the part that the clean-up removed and not in the cleaned
\* answer.
C30_ReadScoresAreRemoved ==
    cPhase = "cleaned" =>
        \A key \in {AGREEMENT_SCORE, FINAL_TRUST_SCORE} :
           parse_score(cText, key) # DefaultScore =>
              ReadBy(cText, key).stop > CleanedEnd

====
